---------------------------- MODULE Spec2Model ----------------------------
(***************************************************************************)
(* Model of the I/O cache, the polling task and the OPC UA variable        *)
(* callbacks of the Kincony A16V3 OPC UA server.                           *)
(*                                                                         *)
(*   io_cache.c   (components/ethernet/include/ethernet_connect.h:32-267)  *)
(*   io_polling.c (unnamed/part_002)                                       *)
(*   pcf8574.c    (unnamed/part_000)                                       *)
(*   model.c      (components/model/model.c)                               *)
(*                                                                         *)
(* Tasks: the polling task (core 1, priority 8) and the server tasks that  *)
(* run the data-source callbacks.  check_and_start_opcua                   *)
(* (main/config.wf.c:267-314) tests isServerCreated before it creates the  *)
(* task and sets the flag afterwards, so two server tasks can be alive;    *)
(* the model runs two of them.  Every step of a task touches at most one   *)
(* shared location, so the interleavings of the steps are the              *)
(* interleavings of the tasks.                                             *)
(***************************************************************************)
EXTENDS Integers, Sequences, FiniteSets, TLC

(***************************************************************************)
(* Program constants                                                       *)
(***************************************************************************)
\* FreeRTOS tick period in milliseconds (ESP-IDF default, 100 Hz tick)
portTICK_PERIOD_MS == 10
POLL_INPUTS_INTERVAL_MS == 20
POLL_ADC_INTERVAL_MS == 100
NUM_ADC_CHANNELS == 4
\* timeout of xSemaphoreTake in the cache getters and in the cache updates
CacheReadTimeoutMs == 5
CacheUpdateTimeoutMs == 20
\* argument of vTaskDelay at the end of a polling iteration
PollDelayMs == 5

\* 2^16: the number of uint16_t values
WordModulus == 65536

(***************************************************************************)
(* Bounds of the model                                                     *)
(***************************************************************************)
\* ticks that may elapse in a run of each scenario (see Scenarios); in the
\* adc scenario they are counted from the last tick before the first ADC
\* pass is due
RaceTicks == 1
ShareTicks == 1
PollTicks == 2
LoopTicks == 0
CounterTicks == 0
AdcTicks == 1
FaultTicks == 2
RetryTicks == 4
StopTicks == 2
NoMutexTicks == 2
StartupTicks == 3
DalTicks == 2
\* calls of wifi_connect in one run
MaxWifiCalls == 2
\* ActivateSession requests of one session
MaxActivations == 2
\* ticks that may elapse after the clock has been advanced to its wrap
WrapTicks == 1
\* reads of diagnostic_counter issued in one run
MaxCounterReads == 3

Workers == {"w1", "w2"}
Poller == "poll"
Tasks == Workers \cup {Poller}
NoTask == "none"
\* the NULL handle xSemaphoreCreateMutex returns when it cannot allocate
NullHandle == "null"
\* the clients (sessions) whose requests the server tasks serve
Callers == {"c1", "c2"}

\* words a client writes
WriteWords == {8, 65535}
\* bytes the two input expanders deliver (0xFF: no input asserted)
InBytes == {<<255, 255>>, <<254, 127>>}
\* the bytes of the two input expanders when no input is asserted
IdleInputs == <<255, 255>>
\* bytes of the input expanders in scenario dalin: no bit, every single
\* bit, every bit, and the two alternating patterns
DalBytes == {0, 1, 2, 4, 8, 16, 32, 64, 128, 255, 170, 85}
\* words written in scenario dalout: no bit, every bit, one whole byte, an
\* alternating pattern, and the lowest and highest bit of either byte
DalWords == {0, 65535, 255, 43605, 1, 128, 256, 32768}
\* raw codes the ADC delivers
AdcCodes == {1234}
Channels == 0 .. (NUM_ADC_CHANNELS - 1)

(***************************************************************************)
(* Pure functions                                                          *)
(***************************************************************************)
\* TickType_t and the product xTaskGetTickCount() * portTICK_PERIOD_MS are
\* 32 bits wide.  A 32-bit value is written <<hi, lo>>, its two 16-bit
\* halves, and the arithmetic below is arithmetic modulo 2^32.  The uint64_t
\* timestamps of the cache are such products widened, so they are written
\* the same way (their upper 32 bits are zero).
U32(n) == <<(n \div WordModulus) % WordModulus, n % WordModulus>>
Zero32 == <<0, 0>>
Add32(a, b) ==
    LET lo == a[2] + b[2]
    IN <<(a[1] + b[1] + (lo \div WordModulus)) % WordModulus, lo % WordModulus>>
Sub32(a, b) ==
    LET lo == a[2] - b[2]
    IN <<(a[1] - b[1] - (IF lo < 0 THEN 1 ELSE 0)) % WordModulus,
         lo % WordModulus>>
\* a * k modulo 2^32, for a small factor k
Mul32(a, k) ==
    LET lo == a[2] * k
    IN <<(a[1] * k + (lo \div WordModulus)) % WordModulus, lo % WordModulus>>
\* a / d as an integer, for a small divisor d
Div32(a, d) ==
    (a[1] \div d) * WordModulus + (((a[1] % d) * WordModulus + a[2]) \div d)
Less32(a, b) == a[1] < b[1] \/ (a[1] = b[1] /\ a[2] < b[2])
Geq32(a, b) == ~Less32(a, b)

\* the last tick count whose millisecond product still fits in 32 bits
LastTickBeforeWrap == U32(Div32(<<65535, 65535>>, portTICK_PERIOD_MS))

\* get_current_time_ms: the product is computed in 32 bits, then widened
get_current_time_ms(t) == Mul32(t, portTICK_PERIOD_MS)

\* pdMS_TO_TICKS(ms) = ms * configTICK_RATE_HZ / 1000
pdMS_TO_TICKS(ms) == (ms * (1000 \div portTICK_PERIOD_MS)) \div 1000

\* (xNow - xLast) * portTICK_PERIOD_MS in TickType_t arithmetic
ElapsedMs(xnow, xlast) == Mul32(Sub32(xnow, xlast), portTICK_PERIOD_MS)

\* a byte passed on without the inversion
InvertByte_Omitted(b) == b

\* ~b on a uint8_t
InvertByte(b) == 255 - b
LowByte(w) == w % 256
HighByte(w) == (w \div 256) % 256
\* ((uint16_t)in2 << 8) | in1
MakeWord(lo, hi) == hi * 256 + lo

\* UA_DateTime_fromUnixTime((UA_Int64)(ts / 1000)): whole seconds
SourceSeconds(ts) == Div32(ts, 1000)


(***************************************************************************)
(* State                                                                   *)
(***************************************************************************)
VARIABLES
    tick,                \* xTaskGetTickCount()
    mutex,               \* holder of io_cache.mutex, or NoTask
    io_cache,            \* io_cache.c: static io_cache_t io_cache
    adc_cache,           \* io_cache.c: static io_cache_adc_t adc_cache
    model_adc,           \* model.c: adc_cache[], adc_timestamps_ms[], adc_server_timestamps_ms[]
    dio_initialized,     \* model.c: static bool dio_initialized
    i2c_initialized,     \* pcf8574.c: static bool i2c_initialized
    expander_out,        \* the bytes latched by output expanders 1 and 2
    diagnostic_counter,  \* model.c: static uint16_t diagnostic_counter
    loopback_input,      \* model.c: static uint16_t loopback_input
    loopback_output,     \* model.c: static uint16_t loopback_output
    xNow,                \* io_polling_task: loop-top tick count
    xLastInputsTime,     \* io_polling_task: tick count of the last input poll
    xLastAdcTime,        \* io_polling_task: tick count of the last ADC pass
    pc,                  \* position of every task
    loc,                 \* local variables of every task
    reply,               \* the reply a callback returns in this step, if any
    scenario,            \* the requests the clients issue and the run's length
    running,             \* opcua_esp32.c: static UA_Boolean running
    isServerCreated,     \* opcua_esp32.c: static UA_Boolean isServerCreated
    fallback_triggered,  \* config.wf.c: static bool fallback_triggered
    network_initialized, \* config.wf.c: static bool network_initialized
    network,             \* the link: "down", "up", "lost", or "back" after
                         \* a reconnect
    opcua,               \* position of every opcua_task, "absent" when the
                         \* task does not exist
    handler,             \* position of the event loop task and of the
                         \* fallback task
    s_retry_num,         \* wifi_connect.c: static int s_retry_num
    s_wifi_initialized,  \* wifi_connect.c: static bool s_wifi_initialized
    s_wifi_event_group,  \* the bits of the event group, NoGroup when NULL
    instance_any_id,     \* event_handler is registered
    sta,                 \* the Wi-Fi station: "stopped", "started",
                         \* "connecting" or "connected"
    wifi_call,           \* the caller of wifi_connect: its position, the
                         \* calls made, the reconnect attempts since the
                         \* call began or an IP was obtained, and the bits
                         \* xEventGroupWaitBits returned to it
    g_config,            \* config.c: opcua_auth_enable and opcua_users[]
    allowAnonymous,      \* AccessControlContext.allowAnonymous
    session,             \* a client session: its sessionContext, the token
                         \* of its last successful activation, the access
                         \* level last computed for it, and the
                         \* activations requested so far
    ticksLeft,           \* ticks that may still elapse
    wrapped,             \* the idle stretch of the scenario has elapsed
    committed,           \* per entry, what the last completed update stored together
    lastOutOk,           \* word written by the last successful outputs write, while no
                         \* write has been issued since it returned
    lastLoopOk,          \* the same for loopback_input
    counterReads,        \* reads of diagnostic_counter issued so far
    counterSeen,         \* per caller, the value its last read of
                         \* diagnostic_counter returned
    counterSeenAlone,    \* the same, while no other caller's read of the counter
                         \* has been served since
    dropped,             \* in a run of scenario retry: per discrete entry,
                         \* whether an update of it timed out and none has been
                         \* attempted since ("dropped"), and whether a due poll
                         \* cycle has begun since ("due")
    initFailed           \* a call of pcf8574_i2c_init from discrete_io_init has
                         \* returned false

timeVars == <<tick, ticksLeft, wrapped>>
cacheVars == <<mutex, io_cache, adc_cache>>
dalVars == <<dio_initialized, i2c_initialized, expander_out>>
diagVars == <<diagnostic_counter, loopback_input, loopback_output>>
pollVars == <<xNow, xLastInputsTime, xLastAdcTime>>
ghostVars == <<committed, lastOutOk, lastLoopOk, counterReads>>
counterAudit == <<counterSeen, counterSeenAlone>>
auditVars == <<counterSeen, counterSeenAlone, dropped, initFailed>>
accessVars == <<g_config, allowAnonymous, session>>
wifiVars == <<s_retry_num, s_wifi_initialized, s_wifi_event_group,
              instance_any_id, sta, wifi_call>>
serverVars == <<isServerCreated, fallback_triggered, network_initialized,
                network, opcua, handler>>
vars == <<tick, mutex, io_cache, adc_cache, model_adc, dio_initialized,
          i2c_initialized, expander_out, diagnostic_counter, loopback_input, loopback_output,
          xNow, xLastInputsTime, xLastAdcTime, pc, loc, reply, scenario,
          running, isServerCreated, fallback_triggered, network_initialized,
          network, opcua, handler,
          s_retry_num, s_wifi_initialized, s_wifi_event_group,
          instance_any_id, sta, wifi_call,
          g_config, allowAnonymous, session,
          ticksLeft, wrapped, committed, lastOutOk, lastLoopOk, counterReads,
          counterSeen, counterSeenAlone, dropped, initFailed>>

NoWord == -1
\* s_wifi_event_group == NULL
NoGroup == {"NULL"}

\* locals of a task that is not inside a function
NoLocals == [op |-> "none", arg |-> 0, kind |-> "NONE", val |-> 0,
             src |-> Zero32, srv |-> Zero32, ts |-> Zero32, i |-> 0,
             seen |-> FALSE, caller |-> "none", alone |-> TRUE,
             busok |-> TRUE, ctx |-> 0, in |-> <<0, 0>>]

NoReply == [task |-> NoTask, op |-> "none", arg |-> 0, kind |-> "NONE",
            status |-> "NONE", hasValue |-> FALSE,
            value |-> 0, sourceSet |-> FALSE, source |-> 0, exp |-> NoWord,
            seen |-> FALSE, srcms |-> Zero32, srvms |-> Zero32,
            caller |-> "none", prev |-> NoWord, prevAlone |-> NoWord,
            ctx |-> 0]

ZeroTriple == [val |-> 0, src |-> Zero32, srv |-> Zero32]

(***************************************************************************)
(* Requests of the clients                                                 *)
(***************************************************************************)
\* A run is one of the following scenarios.  A scenario fixes which server
\* tasks are alive (one in normal operation, two after the race in
\* check_and_start_opcua), which requests the clients send, how many ticks
\* elapse, and whether bus transactions can fail.
\*   race    two server tasks, both serving writes of discrete_outputs
\*   share   two server tasks, one serving writes and the other reads of
\*           discrete_outputs
\*   poll    one server task, reads and writes of the discrete entries,
\*           while the polling task polls the inputs; the clock may reach
\*           its wrap
\*   loop    two server tasks, the loopback pair and writes to read-only
\*           nodes
\*   counter two server tasks, reads of diagnostic_counter
\*   adc     one server task, reads of the ADC channels and of
\*           discrete_inputs and the loopback pair, before and during the
\*           first ADC pass
\*   fault   one server task, one write of discrete_outputs, with failing
\*           bus transactions
\*   retry   one server task, one write of discrete_outputs, sent while the
\*           polling task is storing an input poll, over two input polls
\*   adcfault no request; the first ADC pass, with failing conversions
\*   getadc  one server task, calls of io_cache_get_adc_channel, before
\*           the first ADC pass and during the second
\*   stop    no request; the network is lost and disconnect_handler runs
\*   nomutex no request; xSemaphoreCreateMutex has failed in io_cache_init
\*   startup the first ticks after app_main, every input idle; a client
\*           reads discrete_inputs
\*   dalin   no request; the input expanders deliver the bytes of DalBytes
\*   dalout  a client writes the words of DalWords to discrete_outputs
\*   wifi    no request; the network manager calls wifi_connect and
\*           wifi_disconnect
\*   access  clients activate a session and ask for their access level
\*   reconnect no request and no server task yet; the network comes up, is
\*           lost and comes back (the handlers of opcua_esp32.c)
\*   fallback  the same with the network-state callback and the fallback
\*           task of config.wf.c
Scenarios == {"race", "share", "poll", "loop", "counter", "adc", "fault",
              "retry", "adcfault", "getadc", "stop", "nomutex", "startup",
              "reconnect", "fallback", "dalin", "dalout", "wifi",
              "access"}
\* the scenarios that begin before any server task has been created
ColdStarts == {"reconnect", "fallback"}
\* the scenarios in which the client sends no request after the first
\* write that returned success
SingleWrite == {"fault", "retry"}
Active(s) ==
    CASE s \in {"race", "share", "loop", "counter"} -> Workers
      [] s \in ColdStarts -> {}
      [] OTHER -> {"w1"}
Repertoire(s, w) ==
    CASE s = "race"    -> {"WriteOutputs"}
      [] s = "share"   -> IF w = "w1" THEN {"WriteOutputs"} ELSE {"ReadOutputs"}
      [] s = "poll"    -> {"ReadInputs", "ReadOutputs", "WriteOutputs"}
      [] s = "loop"    -> {"ReadLoopIn", "ReadLoopOut", "WriteLoopIn",
                           "WriteReadOnly"}
      [] s = "counter" -> {"ReadCounter"}
      [] s = "adc"     -> {"ReadAdc", "ReadInputs", "WriteLoopIn",
                           "ReadLoopOut"}
      [] s = "fault"   -> {"WriteOutputs"}
      [] s = "retry"   -> {"WriteOutputs"}
      [] s = "getadc"  -> {"GetAdc"}
      [] s = "startup" -> {"ReadInputs"}
      [] s = "dalout"  -> {"WriteOutputs"}
      [] OTHER         -> {}
TickBudget(s) ==
    CASE s = "race"    -> RaceTicks
      [] s = "share"   -> ShareTicks
      [] s = "poll"    -> PollTicks
      [] s = "loop"    -> LoopTicks
      [] s = "counter" -> CounterTicks
      [] s = "adc"     -> 0
      [] s = "adcfault" -> 0
      [] s = "getadc"  -> 0
      [] s = "fault"   -> FaultTicks
      [] s = "retry"   -> RetryTicks
      [] s = "stop"    -> StopTicks
      [] s = "nomutex" -> NoMutexTicks
      [] s = "startup" -> StartupTicks
      [] s \in ColdStarts -> 0
      [] s = "dalin" -> DalTicks
      [] s = "dalout" -> 0
      [] s = "wifi" -> 0
      [] s = "access" -> 0
\* the words the client served by task w writes: with two server tasks each
\* client has a word of its own
WordsOf(s, w) ==
    CASE s = "race"  -> IF w = "w1" THEN {8} ELSE {65535}
      [] s = "fault" -> {8}
      [] s = "retry" -> {8}
      [] s = "adc"   -> {8}
      [] s = "dalout" -> DalWords
      [] OTHER       -> WriteWords

\* the bytes the input expanders deliver in a run of scenario s
InBytesOf(s) ==
    CASE s = "poll"    -> InBytes
      [] s = "startup" -> {IdleInputs}
      [] s = "dalin"   -> DalBytes \X DalBytes
      [] OTHER         -> {<<254, 127>>}

\* payloads that are not a 16-bit unsigned scalar: a 32-bit scalar, a
\* boolean, an array of 16-bit words, and no value at all
OtherPayloads ==
    { [hasValue |-> TRUE, isScalar |-> TRUE, type |-> "UINT32", data |-> 70000],
      [hasValue |-> TRUE, isScalar |-> TRUE, type |-> "BOOLEAN", data |-> 1],
      [hasValue |-> TRUE, isScalar |-> FALSE, type |-> "UINT16", data |-> 8],
      [hasValue |-> FALSE, isScalar |-> TRUE, type |-> "UINT16", data |-> 8] }

\* the payloads of the write requests sent to server task w; the clients of
\* the share and loop scenarios also send the other payloads
Payloads(s, w) ==
    { [hasValue |-> TRUE, isScalar |-> TRUE, type |-> "UINT16", data |-> d] :
          d \in WordsOf(s, w) }
    \cup (IF s \in {"share", "loop"} THEN OtherPayloads ELSE {})

\* the results a bus transaction can have: TRUE is ESP_OK
BusResults(s) == IF s \in {"fault", "adcfault"} THEN BOOLEAN ELSE {TRUE}

(***************************************************************************)
(* Users and identity tokens (config.c, ua_accesscontrol_custom.c)        *)
(***************************************************************************)
\* the byte 0 inside a UA_String or at the end of a C string
NUL == "NUL"
\* sizeof(username), sizeof(password) in activateSession_custom
CredentialBufferSize == 32

OPCUA_ROLE_VIEWER == {"CONNECT", "BROWSE", "READ"}
OPCUA_ROLE_OPERATOR == OPCUA_ROLE_VIEWER \cup {"WRITE", "SUBSCRIBE"}
OPCUA_ROLE_ADMIN == OPCUA_ROLE_OPERATOR \cup {"CALL", "CONFIG", "ADMIN"}

\* g_config after config_init_defaults
DefaultConfig ==
    [init_complete |-> TRUE,
     opcua_auth_enable |-> TRUE,
     opcua_users |->
        << [username |-> <<"o", "p", "e", "r", "a", "t", "o", "r">>,
            password |-> <<"r", "e", "a", "d", "o", "n", "l", "y",
                           "1", "2", "3">>,
            rights |-> OPCUA_ROLE_VIEWER, enabled |-> TRUE],
           [username |-> <<"e", "n", "g", "i", "n", "e", "e", "r">>,
            password |-> <<"r", "e", "a", "d", "w", "r", "i", "t", "e",
                           "4", "5", "6">>,
            rights |-> OPCUA_ROLE_OPERATOR, enabled |-> TRUE],
           [username |-> <<"a", "d", "m", "i", "n">>,
            password |-> <<"a", "d", "m", "i", "n", "7", "8", "9">>,
            rights |-> OPCUA_ROLE_ADMIN, enabled |-> TRUE] >>]

\* the configurations of a run of scenario s: the defaults, the defaults
\* with user engineer disabled, and either with the authentication
\* switched off by config_set_opcua_auth_enabled
ConfigsOf(s) ==
    IF s = "access"
    THEN {[c EXCEPT !.opcua_auth_enable = e] :
             c \in {DefaultConfig,
                    [DefaultConfig EXCEPT !.opcua_users[2].enabled = FALSE]},
             e \in BOOLEAN}
    ELSE {DefaultConfig}

\* a string of CredentialBufferSize characters
LongString == [i \in 1 .. CredentialBufferSize |-> "x"]

\* the user names and passwords the clients present
UserNames ==
    {DefaultConfig.opcua_users[i].username : i \in 1 .. 3}
    \cup {<<>>, <<"a", "d", "m">>,
          DefaultConfig.opcua_users[3].username \o <<NUL, "x">>, LongString}
Passwords ==
    {DefaultConfig.opcua_users[i].password : i \in 1 .. 3}
    \cup {<<>>, <<"a", "d", "m">>,
          DefaultConfig.opcua_users[3].password \o <<NUL, "x">>, LongString}

NoToken == [kind |-> "none", policyId |-> "", userName |-> <<>>,
            password |-> <<>>]

\* the user identity tokens of ActivateSession: no body, a body that
\* cannot be decoded, an anonymous token, a user name token, and a token
\* of another type
Tokens ==
    {[NoToken EXCEPT !.kind = k] : k \in {"NOBODY", "ENCODED", "x509"}}
    \cup {[NoToken EXCEPT !.kind = "anonymous", !.policyId = p] :
             p \in {"", "open62541-anonymous-policy", "other"}}
    \cup {[kind |-> "username", policyId |-> p, userName |-> n,
            password |-> w] :
             p \in {"open62541-username-policy"}, n \in UserNames,
             w \in Passwords}
    \cup {[kind |-> "username", policyId |-> "other",
            userName |-> DefaultConfig.opcua_users[3].username,
            password |-> DefaultConfig.opcua_users[3].password]}

\* *sessionContext == NULL
NullContext == {"NULL"}
\* no access level has been computed for the session
NoLevel == {"none"}

(***************************************************************************)
(* Init: io_cache_init and adc_init have run, io_polling_task_start has    *)
(* created the polling task (app_main, opcua_esp32.c:499-501)              *)
(***************************************************************************)
Init ==
    /\ scenario \in Scenarios
    /\ running = TRUE
    /\ isServerCreated = (Active(scenario) # {})
    /\ fallback_triggered = FALSE
    /\ network_initialized = (Active(scenario) # {})
    /\ network = (IF Active(scenario) = {} THEN "down" ELSE "up")
    /\ opcua = [w \in Workers |->
                  IF w \in Active(scenario) THEN "loop" ELSE "absent"]
    /\ handler = [event |-> "idle",
                  fallback |-> IF scenario = "fallback" THEN "wait" ELSE "done"]
    /\ g_config \in ConfigsOf(scenario)
    /\ allowAnonymous \in
          (IF scenario = "access" /\ g_config.opcua_auth_enable
           THEN BOOLEAN ELSE {FALSE})
    /\ session = [context |-> NullContext, token |-> NoToken,
                  level |-> NoLevel, activations |-> 0]
    /\ s_retry_num = 0
    /\ s_wifi_initialized = FALSE
    /\ s_wifi_event_group = NoGroup
    /\ instance_any_id = FALSE
    /\ sta = "stopped"
    /\ wifi_call = [pc |-> "idle", calls |-> 0, attempts |-> 0,
                    bits |-> {}, result |-> "NONE"]
    /\ tick = Zero32
    /\ mutex = (IF scenario = "nomutex" THEN NullHandle ELSE NoTask)
    /\ io_cache = [discrete_inputs_cache |-> 0, discrete_outputs_cache |-> 0,
                   inputs_timestamp_ms |-> Zero32,
                   outputs_timestamp_ms |-> Zero32,
                   inputs_server_timestamp_ms |-> Zero32,
                   outputs_server_timestamp_ms |-> Zero32]
    /\ adc_cache = [c \in Channels |->
                      [value |-> 0, timestamp_ms |-> Zero32,
                       server_timestamp_ms |-> Zero32, valid |-> FALSE]]
    /\ model_adc = [c \in Channels |->
                      [value |-> 0, timestamp_ms |-> Zero32,
                       server_timestamp_ms |-> Zero32]]
    /\ dio_initialized = FALSE
    /\ i2c_initialized = FALSE
    /\ expander_out = [out1 |-> 255, out2 |-> 255]
    /\ diagnostic_counter = 0
    /\ loopback_input = 0
    /\ loopback_output = 0
    /\ xNow = Zero32
    /\ xLastInputsTime = Zero32
    /\ xLastAdcTime = Zero32
    /\ pc = [t \in Tasks |-> IF t = Poller THEN "p_start" ELSE "idle"]
    /\ loc = [t \in Tasks |-> NoLocals]
    /\ reply = NoReply
    /\ ticksLeft = TickBudget(scenario)
    /\ wrapped = FALSE
    /\ committed = [inputs |-> ZeroTriple, outputs |-> ZeroTriple,
                    adc |-> [c \in Channels |-> [val |-> 0, src |-> Zero32]],
                    cache |-> [c \in Channels |-> ZeroTriple]]
    /\ lastOutOk = NoWord
    /\ lastLoopOk = NoWord
    /\ counterReads = 0
    /\ counterSeen = [c \in Callers |-> NoWord]
    /\ counterSeenAlone = [c \in Callers |-> NoWord]
    /\ dropped = [e \in {"inputs", "outputs"} |-> "none"]
    /\ initFailed = FALSE

(***************************************************************************)
(* Helpers of the step relation                                            *)
(***************************************************************************)
Goto(t, label) == pc' = [pc EXCEPT ![t] = label]

\* a callback of server task w returns: r goes to the client
Finish(w, r) ==
    /\ pc' = [pc EXCEPT ![w] = "idle"]
    /\ loc' = [loc EXCEPT ![w] = NoLocals]
    /\ reply' = [r EXCEPT !.task = w]

\* a step that is not the return of a callback
NoReturn == reply' = NoReply

\* dropped after an update of entry e has been stored (v is "none") or has
\* timed out (v is "dropped")
Noted(e, v) ==
    IF scenario = "retry" THEN [dropped EXCEPT ![e] = v] ELSE dropped

\* the polling task is in an input poll, past the DAL call
InputPollStoring == pc[Poller] \in {"pi_ts", "pi_take", "pi_src", "pi_srv"}

\* server task w is free and a client sends it request op
Issues(w, op) ==
    /\ pc[w] = "idle"
    /\ running
    /\ w \in Active(scenario)
    /\ op \in Repertoire(scenario, w)

\* server tasks other than w that are inside callback op
InFlight(op, w) == {v \in Workers \ {w} : loc[v].op = op}

\* a cache getter that reads without waiting for the holder of the mutex
xSemaphoreTake_get_NoWait(t) == TRUE

\* xSemaphoreTake(io_cache.mutex, timeout) == pdTRUE in a cache getter
xSemaphoreTake_get(t) == mutex = NoTask

\* a cache update that does not wait for the holder of the mutex
xSemaphoreTake_update_NoWait(t) == TRUE

\* xSemaphoreTake(io_cache.mutex, timeout) == pdTRUE in a cache update
xSemaphoreTake_update(t) == mutex = NoTask

\* an xSemaphoreTake that waits without a bound (portMAX_DELAY)
TakeTimesOut_Never(t) == FALSE

\* xSemaphoreTake returns pdFALSE: another task held the mutex for the whole
\* wait (pdMS_TO_TICKS(5) ticks in a getter, pdMS_TO_TICKS(20) in an update)
TakeTimesOut(t) == mutex \notin {NoTask, NullHandle, t}

\* a critical section that ends without giving the mutex back
xSemaphoreGive_Omitted(t) == mutex' = mutex

\* xSemaphoreGive(io_cache.mutex)
xSemaphoreGive(t) == mutex' = IF mutex = t THEN NoTask ELSE mutex

\* the word a read of discrete_outputs issued from now on has to return, as
\* server task w returns success from a write: the written word, unless
\* another write or a read of discrete_outputs is still in flight
Undisturbed(w) ==
    IF InFlight("WriteOutputs", w) = {} /\ InFlight("ReadOutputs", w) = {}
    THEN loc[w].val ELSE NoWord

\* a type test that accepts every scalar
IsUInt16Scalar_AnyScalar(p) == p.hasValue /\ p.isScalar

\* data->hasValue && UA_Variant_isScalar(&data->value) &&
\* data->value.type == &UA_TYPES[UA_TYPES_UINT16]
IsUInt16Scalar(p) == p.hasValue /\ p.isScalar /\ p.type = "UINT16"

\* a read callback that reports a failure when it delivers no source
\* timestamp
GoodValue_BadWithoutSource(op, arg, value, sourceSet, source) ==
    [NoReply EXCEPT !.op = op, !.arg = arg,
                    !.status = IF sourceSet THEN "GOOD" ELSE "BADNODATA",
                    !.hasValue = sourceSet, !.value = value,
                    !.sourceSet = sourceSet, !.source = source]

\* the reply of a read callback that returns UA_STATUSCODE_GOOD
GoodValue(op, arg, value, sourceSet, source) ==
    [NoReply EXCEPT !.op = op, !.arg = arg, !.status = "GOOD",
                    !.hasValue = TRUE, !.value = value,
                    !.sourceSet = sourceSet, !.source = source]

\* what a write request carries: nothing, an array, or a scalar of a type
KindOf(p) ==
    IF ~p.hasValue THEN "EMPTY" ELSE IF ~p.isScalar THEN "ARRAY" ELSE p.type

\* the reply of a write callback to a request that carried a payload of
\* the given kind
WriteStatus(op, arg, kind, status) ==
    [NoReply EXCEPT !.op = op, !.arg = arg, !.kind = kind, !.status = status]

(***************************************************************************)
(* Diagnostic variables (model.c:340-493)                                  *)
(***************************************************************************)
\* a counter that stops at its largest value
Increment_Saturating(v) == IF v + 1 < WordModulus THEN v + 1 ELSE v

\* diagnostic_counter++ on a uint16_t
Increment(v) == (v + 1) % WordModulus

\* server tasks that are serving a request of caller c
Serving(c) == {v \in Workers : loc[v].caller = c}

\* readDiagnosticCounter: diagnostic_counter++ is a load and a store; the
\* following copy is a second load or the incremented register.  A caller
\* has one request in flight at a time; a read is served alone when no
\* other read of the counter is in progress at any moment of it.
readDiagnosticCounter(w) ==
    \/ /\ Issues(w, "ReadCounter")
       /\ counterReads < MaxCounterReads
       /\ counterReads' = counterReads + 1
       /\ pc' = [pc EXCEPT ![w] = "rc_load"]
       /\ \E c \in Callers :
            /\ Serving(c) = {}
            /\ loc' = [v \in Tasks |->
                          IF v = w
                          THEN [NoLocals EXCEPT
                                   !.op = "ReadCounter", !.caller = c,
                                   !.alone = (InFlight("ReadCounter", w) = {})]
                          ELSE [loc[v] EXCEPT !.alone = (loc[v].op # "ReadCounter")]]
            /\ counterSeenAlone' =
                  [x \in Callers |->
                      IF x = c THEN counterSeenAlone[x] ELSE NoWord]
       /\ NoReturn
       /\ UNCHANGED <<timeVars, cacheVars, model_adc, dalVars, diagVars,
                      pollVars, scenario, running, serverVars, committed, lastOutOk, lastLoopOk,
                      counterSeen, dropped, initFailed,
                   wifiVars,
                   accessVars>>
    \/ /\ pc[w] = "rc_load"
       /\ loc' = [loc EXCEPT ![w].val = diagnostic_counter]
       /\ Goto(w, "rc_store")
       /\ NoReturn
       /\ UNCHANGED <<timeVars, cacheVars, model_adc, dalVars, diagVars,
                      pollVars, scenario, running, serverVars, auditVars, ghostVars,
                   wifiVars,
                   accessVars>>
    \/ /\ pc[w] = "rc_store"
       /\ diagnostic_counter' = Increment(loc[w].val)
       /\ Goto(w, "rc_read")
       /\ NoReturn
       /\ UNCHANGED <<timeVars, cacheVars, model_adc, dalVars, loopback_input,
                      loopback_output, pollVars, scenario, running, serverVars, auditVars, ghostVars,
                      loc,
                   wifiVars,
                   accessVars>>
    \/ /\ pc[w] = "rc_read"
       /\ \E counter \in {diagnostic_counter, Increment(loc[w].val)} :
            LET c == loc[w].caller
            IN /\ Finish(w, [GoodValue("ReadCounter", 0, counter, TRUE, 0)
                               EXCEPT !.caller = c,
                                      !.prev = counterSeen[c],
                                      !.prevAlone = counterSeenAlone[c]])
               /\ counterSeen' = [counterSeen EXCEPT ![c] = counter]
               /\ counterSeenAlone' =
                     [counterSeenAlone EXCEPT ![c] =
                         IF loc[w].alone THEN counter ELSE NoWord]
       /\ UNCHANGED <<timeVars, cacheVars, model_adc, dalVars, diagVars,
                      pollVars, scenario, running, serverVars, ghostVars, dropped, initFailed,
                   wifiVars,
                   accessVars>>

\* the value diagnostic_counter holds two reads before it wraps
LastCountBeforeWrap == WordModulus - 2

\* A stretch of LastCountBeforeWrap reads of diagnostic_counter, served one
\* after the other from start-up on: each has incremented the counter once.
ReadsUntilCounterWrap ==
    /\ scenario = "counter"
    /\ ~wrapped
    /\ counterReads = 0
    /\ \A w \in Workers : pc[w] = "idle"
    /\ diagnostic_counter' = LastCountBeforeWrap
    /\ wrapped' = TRUE
    /\ NoReturn
    /\ UNCHANGED <<tick, ticksLeft, cacheVars, model_adc, dalVars,
                   loopback_input, loopback_output, pollVars, scenario, running, serverVars,
                   auditVars, ghostVars, loc, pc,
                   wifiVars,
                   accessVars>>

\* readLoopbackInput
readLoopbackInput(w) ==
    /\ Issues(w, "ReadLoopIn")
    /\ Finish(w, GoodValue("ReadLoopIn", 0, loopback_input, TRUE, 0))
    /\ UNCHANGED <<timeVars, cacheVars, model_adc, dalVars, diagVars,
                   pollVars, scenario, running, serverVars, auditVars, ghostVars,
                   wifiVars,
                   accessVars>>

\* readLoopbackOutput
readLoopbackOutput(w) ==
    /\ Issues(w, "ReadLoopOut")
    /\ Finish(w, [GoodValue("ReadLoopOut", 0, loopback_output, TRUE, 0)
                    EXCEPT !.exp = lastLoopOk])
    /\ UNCHANGED <<timeVars, cacheVars, model_adc, dalVars, diagVars,
                   pollVars, scenario, running, serverVars, auditVars, ghostVars,
                   wifiVars,
                   accessVars>>

\* a write callback without the mirror store
InstantLoopback_Omitted(value) == loopback_output

\* a mirror store of another word than the written one
InstantLoopback_OffByOne(value) == (value + 1) % WordModulus

\* loopback_output = (uint16_t)value: what the mirror store puts into
\* loopback_output
InstantLoopback(value) == value

\* writeLoopbackInput: the type test, then the two stores
writeLoopbackInput(w) ==
    \/ /\ Issues(w, "WriteLoopIn")
       /\ \E p \in Payloads(scenario, w) :
            IF IsUInt16Scalar(p)
            THEN /\ pc' = [pc EXCEPT ![w] = "wl_in"]
                 /\ loc' = [loc EXCEPT ![w] =
                               [NoLocals EXCEPT !.op = "WriteLoopIn",
                                                !.kind = KindOf(p),
                                                !.val = p.data % WordModulus]]
                 /\ lastLoopOk' = NoWord
                 /\ NoReturn
            ELSE /\ Finish(w, WriteStatus("WriteLoopIn", p.data, KindOf(p),
                                          "BADTYPEMISMATCH"))
                 /\ UNCHANGED lastLoopOk
       /\ UNCHANGED <<timeVars, cacheVars, model_adc, dalVars, diagVars,
                      pollVars, scenario, running, serverVars, auditVars, committed, lastOutOk, counterReads,
                   wifiVars,
                   accessVars>>
    \/ /\ pc[w] = "wl_in"
       /\ loopback_input' = loc[w].val
       /\ Goto(w, "wl_out")
       /\ NoReturn
       /\ UNCHANGED <<timeVars, cacheVars, model_adc, dalVars,
                      diagnostic_counter, loopback_output, pollVars, scenario, running, serverVars, auditVars,
                      ghostVars, loc,
                   wifiVars,
                   accessVars>>
    \/ /\ pc[w] = "wl_out"
       /\ loopback_output' = InstantLoopback(loc[w].val)
       /\ lastLoopOk' = IF InFlight("WriteLoopIn", w) = {}
                        THEN loc[w].val ELSE NoWord
       /\ Finish(w, WriteStatus("WriteLoopIn", loc[w].val, loc[w].kind,
                                "GOOD"))
       /\ UNCHANGED <<timeVars, cacheVars, model_adc, dalVars,
                      diagnostic_counter, loopback_input, pollVars, scenario, running, serverVars, auditVars,
                      committed, lastOutOk, counterReads,
                   wifiVars,
                   accessVars>>

\* a write request to a node registered with accessLevel READ and
\* dataSource.write = NULL (discrete_inputs, adc_channel_1..4,
\* diagnostic_counter, loopback_output): the server answers without calling
\* into the model
writeReadOnlyNode(w) ==
    /\ Issues(w, "WriteReadOnly")
    /\ \E p \in Payloads(scenario, w) :
          Finish(w, WriteStatus("WriteReadOnly", p.data, KindOf(p),
                                "BADNOTWRITABLE"))
    /\ UNCHANGED <<timeVars, cacheVars, model_adc, dalVars, diagVars,
                   pollVars, scenario, running, serverVars, auditVars, ghostVars,
                   wifiVars,
                   accessVars>>

(***************************************************************************)
(* Device abstraction layer (model.c:28-121, pcf8574.c)                    *)
(***************************************************************************)
\* pcf8574_i2c_init: true at once when the bus is already set up, else the
\* result of i2c_param_config and i2c_driver_install
pcf8574_i2c_init(ok) ==
    IF i2c_initialized THEN ok = TRUE ELSE ok \in BusResults(scenario)

\* discrete_io_init, entered by task t at label init; the caller tests
\* dio_initialized again at label retest.  pcf8574_write leaves the latch
\* unchanged when it fails.
discrete_io_init(t, init, retest) ==
    \/ /\ pc[t] = init
       /\ IF dio_initialized
          THEN Goto(t, retest) /\ UNCHANGED <<i2c_initialized, initFailed>>
          ELSE \E ok \in BusResults(scenario) :
                  /\ pcf8574_i2c_init(ok)
                  /\ i2c_initialized' = (i2c_initialized \/ ok)
                  /\ initFailed' = (initFailed \/ ~ok)
                  /\ Goto(t, IF ok THEN init \o "_safe1" ELSE retest)
       /\ NoReturn
       /\ UNCHANGED <<timeVars, cacheVars, model_adc, dio_initialized,
                      expander_out, diagVars, pollVars, scenario, running, serverVars, counterAudit,
                      dropped, ghostVars, loc,
                   wifiVars,
                   accessVars>>
    \/ /\ pc[t] = init \o "_safe1"
       /\ \E ok \in BusResults(scenario) :
            expander_out' = IF ok THEN [expander_out EXCEPT !.out1 = 255]
                            ELSE expander_out
       /\ Goto(t, init \o "_safe2")
       /\ NoReturn
       /\ UNCHANGED <<timeVars, cacheVars, model_adc, dio_initialized,
                      i2c_initialized, diagVars, pollVars, scenario, running, serverVars, auditVars,
                      ghostVars, loc,
                   wifiVars,
                   accessVars>>
    \/ /\ pc[t] = init \o "_safe2"
       /\ \E ok \in BusResults(scenario) :
            expander_out' = IF ok THEN [expander_out EXCEPT !.out2 = 255]
                            ELSE expander_out
       /\ Goto(t, init \o "_done")
       /\ NoReturn
       /\ UNCHANGED <<timeVars, cacheVars, model_adc, dio_initialized,
                      i2c_initialized, diagVars, pollVars, scenario, running, serverVars, auditVars, ghostVars,
                      loc,
                   wifiVars,
                   accessVars>>
    \/ /\ pc[t] = init \o "_done"
       /\ dio_initialized' = TRUE
       /\ Goto(t, retest)
       /\ NoReturn
       /\ UNCHANGED <<timeVars, cacheVars, model_adc, expander_out,
                      i2c_initialized, diagVars, pollVars, scenario, running, serverVars, auditVars, ghostVars,
                      loc,
                   wifiVars,
                   accessVars>>

\* write_discrete_outputs_slow(outputs) called by server task w; its first
\* test of dio_initialized is made in the step that enters it
write_discrete_outputs_slow(w) ==
    \/ discrete_io_init(w, "wo_init", "wo_retest")
    \/ /\ pc[w] = "wo_retest"
       /\ Goto(w, IF dio_initialized THEN "wo_out1" ELSE "wo_ts")
       /\ NoReturn
       /\ UNCHANGED <<timeVars, cacheVars, model_adc, dalVars, diagVars,
                      pollVars, scenario, running, serverVars, auditVars, ghostVars, loc,
                   wifiVars,
                   accessVars>>
    \/ /\ pc[w] = "wo_out1"
       /\ \E ok \in BusResults(scenario) :
            expander_out' =
               IF ok THEN [expander_out EXCEPT
                              !.out1 = InvertByte(LowByte(loc[w].val))]
               ELSE expander_out
       /\ Goto(w, "wo_out2")
       /\ NoReturn
       /\ UNCHANGED <<timeVars, cacheVars, model_adc, dio_initialized,
                      i2c_initialized, diagVars, pollVars, scenario, running, serverVars, auditVars, ghostVars,
                      loc,
                   wifiVars,
                   accessVars>>
    \/ /\ pc[w] = "wo_out2"
       /\ \E ok \in BusResults(scenario) :
            expander_out' =
               IF ok THEN [expander_out EXCEPT
                              !.out2 = InvertByte(HighByte(loc[w].val))]
               ELSE expander_out
       /\ Goto(w, "wo_ts")
       /\ NoReturn
       /\ UNCHANGED <<timeVars, cacheVars, model_adc, dio_initialized,
                      i2c_initialized, diagVars, pollVars, scenario, running, serverVars, auditVars, ghostVars,
                      loc,
                   wifiVars,
                   accessVars>>

\* the word read_discrete_inputs_slow returns when the expanders are not
\* set up
InputsSentinel == 65535

\* pcf8574_read: the byte on the pins, or 0xFF when the transaction fails
pcf8574_read(ok, data) == IF ok THEN data ELSE 255

\* read_discrete_inputs_slow() called by the polling task; busok records
\* whether every bus access of the call succeeded
read_discrete_inputs_slow ==
    \/ /\ pc[Poller] = "pi_dal"
       /\ Goto(Poller, IF dio_initialized THEN "pi_read" ELSE "pi_init")
       /\ NoReturn
       /\ UNCHANGED <<timeVars, cacheVars, model_adc, dalVars, diagVars,
                      pollVars, scenario, running, serverVars, auditVars, ghostVars, loc,
                   wifiVars,
                   accessVars>>
    \/ discrete_io_init(Poller, "pi_init", "pi_retest")
    \/ /\ pc[Poller] = "pi_retest"
       /\ IF dio_initialized
          THEN Goto(Poller, "pi_read") /\ UNCHANGED loc
          ELSE /\ loc' = [loc EXCEPT ![Poller].val = InputsSentinel,
                                     ![Poller].busok = FALSE]
               /\ Goto(Poller, "pi_ts")
       /\ NoReturn
       /\ UNCHANGED <<timeVars, cacheVars, model_adc, dalVars, diagVars,
                      pollVars, scenario, running, serverVars, auditVars, ghostVars,
                   wifiVars,
                   accessVars>>
    \/ /\ pc[Poller] = "pi_read"
       /\ \E in \in InBytesOf(scenario), ok1, ok2 \in BusResults(scenario) :
            loc' = [loc EXCEPT
                       ![Poller].val =
                          MakeWord(InvertByte(pcf8574_read(ok1, in[1])),
                                   InvertByte(pcf8574_read(ok2, in[2]))),
                       ![Poller].busok = (ok1 /\ ok2),
                       ![Poller].in = <<pcf8574_read(ok1, in[1]),
                                        pcf8574_read(ok2, in[2])>>]
       /\ Goto(Poller, "pi_ts")
       /\ NoReturn
       /\ UNCHANGED <<timeVars, cacheVars, model_adc, dalVars, diagVars,
                      pollVars, scenario, running, serverVars, auditVars, ghostVars,
                   wifiVars,
                   accessVars>>

(***************************************************************************)
(* Discrete I/O callbacks (model.c:143-240) with the cache functions they  *)
(* call (io_cache.c).  The step that takes the mutex also makes the first  *)
(* access of the critical section and the step that makes the last access  *)
(* also gives the mutex: the accesses in between are separate steps.       *)
(***************************************************************************)
\* the reply of a discrete read that took the mutex
CacheValue(op, w, srv, sourceTimeStamp) ==
    [GoodValue(op, 0, loc[w].val,
               sourceTimeStamp /\ loc[w].src # Zero32,
               IF sourceTimeStamp /\ loc[w].src # Zero32
               THEN SourceSeconds(loc[w].src) ELSE 0)
       EXCEPT !.seen = TRUE, !.srcms = loc[w].src, !.srvms = srv,
              !.exp = IF op = "ReadOutputs" THEN lastOutOk ELSE NoWord]

\* a getter that returns the cached word without the mutex
TimedOutWord_Unlocked(cached) == cached

\* the word a cache getter returns when xSemaphoreTake fails: uint16_t val = 0
\* is never assigned
TimedOutWord(cached) == 0

\* a read callback that samples the expanders itself: it enters
\* read_discrete_inputs_slow's set-up of the expanders
readDiscreteInputs_Slow(w) ==
    /\ Issues(w, "ReadInputs")
    /\ loc' = [loc EXCEPT ![w] = [NoLocals EXCEPT !.op = "ReadInputs"]]
    /\ Goto(w, "wo_init")
    /\ NoReturn
    /\ UNCHANGED <<timeVars, cacheVars, model_adc, dalVars, diagVars,
                   pollVars, scenario, running, serverVars, auditVars, ghostVars,
                   wifiVars,
                   accessVars>>

\* readDiscreteInputs with io_cache_get_discrete_inputs
readDiscreteInputs(w) ==
    \/ /\ Issues(w, "ReadInputs")
       /\ xSemaphoreTake_get(w)
       /\ mutex' = w
       /\ loc' = [loc EXCEPT ![w] =
                     [NoLocals EXCEPT !.op = "ReadInputs",
                                      !.val = io_cache.discrete_inputs_cache]]
       /\ Goto(w, "ri_src")
       /\ NoReturn
       /\ UNCHANGED <<timeVars, io_cache, adc_cache, model_adc, dalVars,
                      diagVars, pollVars, scenario, running, serverVars, auditVars, ghostVars,
                   wifiVars,
                   accessVars>>
    \/ /\ Issues(w, "ReadInputs")
       /\ TakeTimesOut(w)
       /\ Finish(w, GoodValue("ReadInputs", 0,
                               TimedOutWord(io_cache.discrete_inputs_cache),
                               FALSE, 0))
       /\ UNCHANGED <<timeVars, cacheVars, model_adc, dalVars, diagVars,
                      pollVars, scenario, running, serverVars, auditVars, ghostVars,
                   wifiVars,
                   accessVars>>
    \/ /\ pc[w] = "ri_src"
       /\ loc' = [loc EXCEPT ![w].src = io_cache.inputs_timestamp_ms]
       /\ Goto(w, "ri_srv")
       /\ NoReturn
       /\ UNCHANGED <<timeVars, cacheVars, model_adc, dalVars, diagVars,
                      pollVars, scenario, running, serverVars, auditVars, ghostVars,
                   wifiVars,
                   accessVars>>
    \/ /\ pc[w] = "ri_srv"
       /\ xSemaphoreGive(w)
       /\ \E sourceTimeStamp \in BOOLEAN :
            Finish(w, CacheValue("ReadInputs", w,
                                 io_cache.inputs_server_timestamp_ms,
                                 sourceTimeStamp))
       /\ UNCHANGED <<timeVars, io_cache, adc_cache, model_adc, dalVars,
                      diagVars, pollVars, scenario, running, serverVars, auditVars, ghostVars,
                   wifiVars,
                   accessVars>>

\* readDiscreteOutputs with io_cache_get_discrete_outputs
readDiscreteOutputs(w) ==
    \/ /\ Issues(w, "ReadOutputs")
       /\ xSemaphoreTake_get(w)
       /\ mutex' = w
       /\ loc' = [loc EXCEPT ![w] =
                     [NoLocals EXCEPT !.op = "ReadOutputs",
                         !.val = io_cache.discrete_outputs_cache]]
       /\ Goto(w, "ro_src")
       /\ NoReturn
       /\ UNCHANGED <<timeVars, io_cache, adc_cache, model_adc, dalVars,
                      diagVars, pollVars, scenario, running, serverVars, auditVars, ghostVars,
                   wifiVars,
                   accessVars>>
    \/ /\ Issues(w, "ReadOutputs")
       /\ TakeTimesOut(w)
       /\ Finish(w, [GoodValue("ReadOutputs", 0,
                                TimedOutWord(io_cache.discrete_outputs_cache),
                                FALSE, 0)
                       EXCEPT !.exp = lastOutOk])
       /\ UNCHANGED <<timeVars, cacheVars, model_adc, dalVars, diagVars,
                      pollVars, scenario, running, serverVars, auditVars, ghostVars,
                   wifiVars,
                   accessVars>>
    \/ /\ pc[w] = "ro_src"
       /\ loc' = [loc EXCEPT ![w].src = io_cache.outputs_timestamp_ms]
       /\ Goto(w, "ro_srv")
       /\ NoReturn
       /\ UNCHANGED <<timeVars, cacheVars, model_adc, dalVars, diagVars,
                      pollVars, scenario, running, serverVars, auditVars, ghostVars,
                   wifiVars,
                   accessVars>>
    \/ /\ pc[w] = "ro_srv"
       /\ xSemaphoreGive(w)
       /\ \E sourceTimeStamp \in BOOLEAN :
            Finish(w, CacheValue("ReadOutputs", w,
                                 io_cache.outputs_server_timestamp_ms,
                                 sourceTimeStamp))
       /\ UNCHANGED <<timeVars, io_cache, adc_cache, model_adc, dalVars,
                      diagVars, pollVars, scenario, running, serverVars, auditVars, ghostVars,
                   wifiVars,
                   accessVars>>

\* writeDiscreteOutputs: the type test, write_discrete_outputs_slow, the
\* timestamp, then io_cache_update_discrete_outputs; the callback returns
\* UA_STATUSCODE_GOOD whether or not the update took the mutex
writeDiscreteOutputs(w) ==
    \/ /\ Issues(w, "WriteOutputs")
       /\ scenario \in SingleWrite => lastOutOk = NoWord
       /\ scenario = "retry" => InputPollStoring
       /\ \E p \in Payloads(scenario, w) :
            IF IsUInt16Scalar(p)
            THEN /\ pc' = [pc EXCEPT ![w] = IF dio_initialized
                                            THEN "wo_out1" ELSE "wo_init"]
                 /\ loc' = [loc EXCEPT ![w] =
                               [NoLocals EXCEPT !.op = "WriteOutputs",
                                                !.kind = KindOf(p),
                                                !.val = p.data % WordModulus]]
                 /\ lastOutOk' = NoWord
                 /\ NoReturn
            ELSE /\ Finish(w, WriteStatus("WriteOutputs", p.data, KindOf(p),
                                          "BADTYPEMISMATCH"))
                 /\ UNCHANGED lastOutOk
       /\ UNCHANGED <<timeVars, cacheVars, model_adc, dalVars, diagVars,
                      pollVars, scenario, running, serverVars, auditVars, committed, lastLoopOk, counterReads,
                   wifiVars,
                   accessVars>>
    \/ write_discrete_outputs_slow(w)
    \/ /\ pc[w] = "wo_ts"
       /\ loc' = [loc EXCEPT ![w].ts = get_current_time_ms(tick)]
       /\ Goto(w, "wo_take")
       /\ NoReturn
       /\ UNCHANGED <<timeVars, cacheVars, model_adc, dalVars, diagVars,
                      pollVars, scenario, running, serverVars, auditVars, ghostVars,
                   wifiVars,
                   accessVars>>
    \/ /\ pc[w] = "wo_take"
       /\ xSemaphoreTake_update(w)
       /\ mutex' = w
       /\ io_cache' = [io_cache EXCEPT !.discrete_outputs_cache = loc[w].val]
       /\ dropped' = Noted("outputs", "none")
       /\ Goto(w, "wo_src")
       /\ NoReturn
       /\ UNCHANGED <<timeVars, adc_cache, model_adc, dalVars,
                      diagVars, pollVars, scenario, running, serverVars, counterAudit, initFailed, ghostVars, loc,
                   wifiVars,
                   accessVars>>
    \/ /\ pc[w] = "wo_take"
       /\ TakeTimesOut(w)
       /\ lastOutOk' = Undisturbed(w)
       /\ dropped' = Noted("outputs", "dropped")
       /\ Finish(w, WriteStatus("WriteOutputs", loc[w].val, loc[w].kind,
                                "GOOD"))
       /\ UNCHANGED <<timeVars, cacheVars, model_adc, dalVars, diagVars,
                      pollVars, scenario, running, serverVars, counterAudit, initFailed, committed, lastLoopOk,
                      counterReads,
                   wifiVars,
                   accessVars>>
    \/ /\ pc[w] = "wo_src"
       /\ io_cache' = [io_cache EXCEPT !.outputs_timestamp_ms = loc[w].ts]
       /\ Goto(w, "wo_srv")
       /\ NoReturn
       /\ UNCHANGED <<timeVars, mutex, adc_cache, model_adc, dalVars, diagVars,
                      pollVars, scenario, running, serverVars, auditVars, ghostVars, loc,
                   wifiVars,
                   accessVars>>
    \/ /\ pc[w] = "wo_srv"
       /\ io_cache' = [io_cache EXCEPT
                          !.outputs_server_timestamp_ms = get_current_time_ms(tick)]
       /\ committed' = [committed EXCEPT !.outputs =
                           [val |-> loc[w].val, src |-> loc[w].ts,
                            srv |-> get_current_time_ms(tick)]]
       /\ xSemaphoreGive(w)
       /\ lastOutOk' = Undisturbed(w)
       /\ Finish(w, WriteStatus("WriteOutputs", loc[w].val, loc[w].kind,
                                "GOOD"))
       /\ UNCHANGED <<timeVars, adc_cache, model_adc, dalVars, diagVars,
                      pollVars, scenario, running, serverVars, auditVars, lastLoopOk, counterReads,
                   wifiVars,
                   accessVars>>

\* the channel indices a node context of an ADC node can carry: the four
\* registered ones, the first one past them, and the first one past the
\* range of uint8_t
AdcContexts == (0 .. NUM_ADC_CHANNELS) \cup {256}

\* uint8_t channel = (uintptr_t)nodeContext
ChannelOf(nodeContext) == nodeContext % 256

\* readAdcChannel: reads model.c's adc_cache[] and adc_timestamps_ms[]
\* without a lock; the timestamp is read for the test and again for the
\* conversion
readAdcChannel(w) ==
    \/ /\ Issues(w, "ReadAdc")
       /\ \E nodeContext \in AdcContexts :
            LET channel == ChannelOf(nodeContext)
            IN IF channel >= NUM_ADC_CHANNELS
               THEN Finish(w, [NoReply EXCEPT !.op = "ReadAdc", !.arg = channel,
                                              !.ctx = nodeContext,
                                              !.status = "BADINTERNALERROR"])
               ELSE /\ loc' = [loc EXCEPT ![w] =
                                 [NoLocals EXCEPT !.op = "ReadAdc",
                                     !.arg = channel, !.ctx = nodeContext,
                                     !.seen = adc_cache[channel].valid]]
                    /\ Goto(w, "ra_val")
                    /\ NoReturn
       /\ UNCHANGED <<timeVars, cacheVars, model_adc, dalVars, diagVars,
                      pollVars, scenario, running, serverVars, auditVars, ghostVars,
                   wifiVars,
                   accessVars>>
    \/ /\ pc[w] = "ra_val"
       /\ \E sourceTimeStamp \in BOOLEAN :
            IF sourceTimeStamp
            THEN /\ loc' = [loc EXCEPT ![w].val = model_adc[loc[w].arg].value]
                 /\ Goto(w, "ra_ts")
                 /\ NoReturn
            ELSE Finish(w, [GoodValue("ReadAdc", loc[w].arg,
                                      model_adc[loc[w].arg].value, FALSE, 0)
                              EXCEPT !.seen = loc[w].seen,
                                     !.ctx = loc[w].ctx])
       /\ UNCHANGED <<timeVars, cacheVars, model_adc, dalVars, diagVars,
                      pollVars, scenario, running, serverVars, auditVars, ghostVars,
                   wifiVars,
                   accessVars>>
    \/ /\ pc[w] = "ra_ts"
       /\ IF model_adc[loc[w].arg].timestamp_ms # Zero32
          THEN Goto(w, "ra_conv") /\ UNCHANGED loc /\ NoReturn
          ELSE Finish(w, [GoodValue("ReadAdc", loc[w].arg, loc[w].val, FALSE, 0)
                            EXCEPT !.seen = loc[w].seen,
                                   !.ctx = loc[w].ctx])
       /\ UNCHANGED <<timeVars, cacheVars, model_adc, dalVars, diagVars,
                      pollVars, scenario, running, serverVars, auditVars, ghostVars,
                   wifiVars,
                   accessVars>>
    \/ /\ pc[w] = "ra_conv"
       /\ Finish(w, [GoodValue("ReadAdc", loc[w].arg, loc[w].val, TRUE,
                        SourceSeconds(model_adc[loc[w].arg].timestamp_ms))
                       EXCEPT !.seen = loc[w].seen, !.ctx = loc[w].ctx,
                              !.srcms = model_adc[loc[w].arg].timestamp_ms])
       /\ UNCHANGED <<timeVars, cacheVars, model_adc, dalVars, diagVars,
                      pollVars, scenario, running, serverVars, auditVars, ghostVars,
                   wifiVars,
                   accessVars>>

\* io_cache_get_adc_channel(channel, &value, &source_timestamp,
\* &server_timestamp) called by server task w: the range test and the test
\* of adc_valid[channel] come before xSemaphoreTake; the reply carries the
\* returned bool and, when it is true, the three values delivered
io_cache_get_adc_channel(w) ==
    \/ /\ Issues(w, "GetAdc")
       /\ \E channel \in 0 .. NUM_ADC_CHANNELS :
            IF channel >= NUM_ADC_CHANNELS \/ ~adc_cache[channel].valid
            THEN Finish(w, [NoReply EXCEPT !.op = "GetAdc", !.arg = channel,
                                           !.status = "FALSE"])
            ELSE /\ loc' = [loc EXCEPT ![w] =
                              [NoLocals EXCEPT !.op = "GetAdc",
                                               !.arg = channel]]
                 /\ Goto(w, "ga_take")
                 /\ NoReturn
       /\ UNCHANGED <<timeVars, cacheVars, model_adc, dalVars, diagVars,
                      pollVars, scenario, running, serverVars, auditVars, ghostVars,
                   wifiVars,
                   accessVars>>
    \/ /\ pc[w] = "ga_take"
       /\ xSemaphoreTake_get(w)
       /\ mutex' = w
       /\ loc' = [loc EXCEPT ![w].val = adc_cache[loc[w].arg].value]
       /\ Goto(w, "ga_src")
       /\ NoReturn
       /\ UNCHANGED <<timeVars, io_cache, adc_cache, model_adc, dalVars,
                      diagVars, pollVars, scenario, running, serverVars, auditVars, ghostVars,
                   wifiVars,
                   accessVars>>
    \/ /\ pc[w] = "ga_take"
       /\ TakeTimesOut(w)
       /\ Finish(w, [NoReply EXCEPT !.op = "GetAdc", !.arg = loc[w].arg,
                                     !.status = "FALSE"])
       /\ UNCHANGED <<timeVars, cacheVars, model_adc, dalVars, diagVars,
                      pollVars, scenario, running, serverVars, auditVars, ghostVars,
                   wifiVars,
                   accessVars>>
    \/ /\ pc[w] = "ga_src"
       /\ loc' = [loc EXCEPT ![w].src = adc_cache[loc[w].arg].timestamp_ms]
       /\ Goto(w, "ga_srv")
       /\ NoReturn
       /\ UNCHANGED <<timeVars, cacheVars, model_adc, dalVars, diagVars,
                      pollVars, scenario, running, serverVars, auditVars, ghostVars,
                   wifiVars,
                   accessVars>>
    \/ /\ pc[w] = "ga_srv"
       /\ xSemaphoreGive(w)
       /\ Finish(w, [NoReply EXCEPT
                        !.op = "GetAdc", !.arg = loc[w].arg,
                        !.status = "TRUE", !.hasValue = TRUE,
                        !.value = loc[w].val, !.srcms = loc[w].src,
                        !.srvms = adc_cache[loc[w].arg].server_timestamp_ms])
       /\ UNCHANGED <<timeVars, io_cache, adc_cache, model_adc, dalVars,
                      diagVars, pollVars, scenario, running, serverVars, auditVars, ghostVars,
                   wifiVars,
                   accessVars>>

(***************************************************************************)
(* Polling task (io_polling.c:31-59) with update_all_adc_channels_slow     *)
(* (model.c:573-592) and the cache updates it calls                        *)
(***************************************************************************)
\* what the polling task does after the input poll of an iteration whose
\* loop-top tick count is now: the ADC pass when it is due, else
\* vTaskDelay(pdMS_TO_TICKS(5)), which is vTaskDelay(0), and the loop top
AfterInputs(now) ==
    IF Geq32(ElapsedMs(now, xLastAdcTime), U32(POLL_ADC_INTERVAL_MS))
    THEN "pa_ts" ELSE "p_top"

\* an input poll that is due only after more than the interval
InputsDue_Late(now) ==
    Less32(U32(POLL_INPUTS_INTERVAL_MS), ElapsedMs(now, xLastInputsTime))

\* an input poll whose interval is compared with the elapsed ticks
InputsDue_InTicks(now) ==
    Geq32(Sub32(now, xLastInputsTime), U32(POLL_INPUTS_INTERVAL_MS))

\* (xNow - xLastInputsTime) * portTICK_PERIOD_MS >= POLL_INPUTS_INTERVAL_MS
InputsDue(now) ==
    Geq32(ElapsedMs(now, xLastInputsTime), U32(POLL_INPUTS_INTERVAL_MS))

\* a cache update of the inputs that stores the word into the outputs entry
StoreInputsWord_IntoOutputs(cache, new_val) ==
    [cache EXCEPT !.discrete_outputs_cache = new_val]

\* io_cache.discrete_inputs_cache = new_val
StoreInputsWord(cache, new_val) ==
    [cache EXCEPT !.discrete_inputs_cache = new_val]

\* io_cache_update_discrete_inputs(inputs, timestamp), then
\* xLastInputsTime = xNow
io_cache_update_discrete_inputs ==
    \/ /\ pc[Poller] = "pi_take"
       /\ xSemaphoreTake_update(Poller)
       /\ mutex' = Poller
       /\ io_cache' = StoreInputsWord(io_cache, loc[Poller].val)
       /\ dropped' = Noted("inputs", "none")
       /\ Goto(Poller, "pi_src")
       /\ NoReturn
       /\ UNCHANGED <<timeVars, adc_cache, model_adc, dalVars,
                      diagVars, pollVars, scenario, running, serverVars, counterAudit, initFailed, ghostVars, loc,
                   wifiVars,
                   accessVars>>
    \/ /\ pc[Poller] = "pi_take"
       /\ TakeTimesOut(Poller)
       /\ xLastInputsTime' = xNow
       /\ dropped' = Noted("inputs", "dropped")
       /\ loc' = [loc EXCEPT ![Poller] = NoLocals]
       /\ Goto(Poller, AfterInputs(xNow))
       /\ NoReturn
       /\ UNCHANGED <<timeVars, cacheVars, model_adc, dalVars, diagVars, xNow,
                      xLastAdcTime, scenario, running, serverVars, counterAudit, initFailed, ghostVars,
                   wifiVars,
                   accessVars>>
    \/ /\ pc[Poller] = "pi_src"
       /\ io_cache' = [io_cache EXCEPT !.inputs_timestamp_ms = loc[Poller].ts]
       /\ Goto(Poller, "pi_srv")
       /\ NoReturn
       /\ UNCHANGED <<timeVars, mutex, adc_cache, model_adc, dalVars, diagVars,
                      pollVars, scenario, running, serverVars, auditVars, ghostVars, loc,
                   wifiVars,
                   accessVars>>
    \/ /\ pc[Poller] = "pi_srv"
       /\ io_cache' = [io_cache EXCEPT
                          !.inputs_server_timestamp_ms = get_current_time_ms(tick)]
       /\ committed' = [committed EXCEPT !.inputs =
                           [val |-> loc[Poller].val, src |-> loc[Poller].ts,
                            srv |-> get_current_time_ms(tick)]]
       /\ xSemaphoreGive(Poller)
       /\ xLastInputsTime' = xNow
       /\ loc' = [loc EXCEPT ![Poller] = NoLocals]
       /\ Goto(Poller, AfterInputs(xNow))
       /\ NoReturn
       /\ UNCHANGED <<timeVars, adc_cache, model_adc, dalVars, diagVars,
                      xNow, xLastAdcTime, scenario, running, serverVars, auditVars, lastOutOk, lastLoopOk,
                      counterReads,
                   wifiVars,
                   accessVars>>

\* adc_cache.adc_valid[channel] = true
ValidAfterUpdate == TRUE

\* ESP_ERROR_CHECK(adc_oneshot_read(...)) in read_adc_channel_slow: TRUE
\* when the call returned ESP_OK and the function goes on; on any other
\* result the macro calls abort() (assertions are enabled in the default
\* configuration of ESP-IDF)
ESP_ERROR_CHECK(ok) == ok

\* update_all_adc_channels_slow: one timestamp for the pass; per channel the
\* conversion (read_adc_channel_slow), the three stores into model.c's
\* arrays, and
\* io_cache_update_adc_channel, whose four stores are made under the mutex.
\* adc1_handle is not NULL: app_main has called adc_init.  After the last
\* channel: xLastAdcTime = xNow, vTaskDelay(0), and the loop top.
update_all_adc_channels_slow ==
    \/ /\ pc[Poller] = "pa_ts"
       /\ loc' = [loc EXCEPT ![Poller].ts = get_current_time_ms(tick),
                             ![Poller].i = 0]
       /\ Goto(Poller, "pa_val")
       /\ NoReturn
       /\ UNCHANGED <<timeVars, cacheVars, model_adc, dalVars, diagVars,
                      pollVars, scenario, running, serverVars, auditVars, ghostVars,
                   wifiVars,
                   accessVars>>
    \/ /\ pc[Poller] = "pa_val"
       /\ \E ok \in BusResults(scenario), raw \in AdcCodes :
            IF ESP_ERROR_CHECK(ok)
            THEN /\ loc' = [loc EXCEPT ![Poller].val = raw]
                 /\ model_adc' = [model_adc EXCEPT ![loc[Poller].i].value = raw]
                 /\ committed' = [committed EXCEPT !.adc[loc[Poller].i] =
                                     [val |-> raw, src |-> loc[Poller].ts]]
                 /\ Goto(Poller, "pa_mts")
            ELSE /\ pc' = [t \in Tasks |-> "abort"]
                 /\ UNCHANGED <<loc, model_adc, committed>>
       /\ NoReturn
       /\ UNCHANGED <<timeVars, cacheVars, dalVars, diagVars, pollVars,
                      scenario, running, serverVars, auditVars, lastOutOk, lastLoopOk, counterReads,
                   wifiVars,
                   accessVars>>
    \/ /\ pc[Poller] = "pa_mts"
       /\ model_adc' = [model_adc EXCEPT
                           ![loc[Poller].i].timestamp_ms = loc[Poller].ts]
       /\ Goto(Poller, "pa_msrv")
       /\ NoReturn
       /\ UNCHANGED <<timeVars, cacheVars, dalVars, diagVars, pollVars,
                      scenario, running, serverVars, auditVars, ghostVars, loc,
                   wifiVars,
                   accessVars>>
    \/ /\ pc[Poller] = "pa_msrv"
       /\ model_adc' = [model_adc EXCEPT
                           ![loc[Poller].i].server_timestamp_ms = loc[Poller].ts]
       /\ Goto(Poller, "pa_take")
       /\ NoReturn
       /\ UNCHANGED <<timeVars, cacheVars, dalVars, diagVars, pollVars,
                      scenario, running, serverVars, auditVars, ghostVars, loc,
                   wifiVars,
                   accessVars>>
    \/ /\ pc[Poller] = "pa_take"
       /\ xSemaphoreTake_update(Poller)
       /\ mutex' = Poller
       /\ adc_cache' = [adc_cache EXCEPT ![loc[Poller].i].value = loc[Poller].val]
       /\ Goto(Poller, "pa_src")
       /\ NoReturn
       /\ UNCHANGED <<timeVars, io_cache, model_adc, dalVars,
                      diagVars, pollVars, scenario, running, serverVars, auditVars, ghostVars, loc,
                   wifiVars,
                   accessVars>>
    \/ /\ pc[Poller] = "pa_src"
       /\ adc_cache' = [adc_cache EXCEPT
                           ![loc[Poller].i].timestamp_ms = loc[Poller].ts]
       /\ Goto(Poller, "pa_srv")
       /\ NoReturn
       /\ UNCHANGED <<timeVars, mutex, io_cache, model_adc, dalVars,
                      diagVars, pollVars, scenario, running, serverVars, auditVars, ghostVars, loc,
                   wifiVars,
                   accessVars>>
    \/ /\ pc[Poller] = "pa_srv"
       /\ adc_cache' = [adc_cache EXCEPT
                           ![loc[Poller].i].server_timestamp_ms =
                               get_current_time_ms(tick)]
       /\ loc' = [loc EXCEPT ![Poller].srv = get_current_time_ms(tick)]
       /\ Goto(Poller, "pa_valid")
       /\ NoReturn
       /\ UNCHANGED <<timeVars, mutex, io_cache, model_adc, dalVars,
                      diagVars, pollVars, scenario, running, serverVars, auditVars, ghostVars,
                   wifiVars,
                   accessVars>>
    \/ /\ pc[Poller] = "pa_take"
       /\ TakeTimesOut(Poller)
       /\ IF loc[Poller].i + 1 < NUM_ADC_CHANNELS
          THEN /\ loc' = [loc EXCEPT ![Poller].i = loc[Poller].i + 1]
               /\ Goto(Poller, "pa_val")
               /\ UNCHANGED xLastAdcTime
          ELSE /\ loc' = [loc EXCEPT ![Poller] = NoLocals]
               /\ Goto(Poller, "p_top")
               /\ xLastAdcTime' = xNow
       /\ NoReturn
       /\ UNCHANGED <<timeVars, cacheVars, model_adc, dalVars, diagVars,
                      xNow, xLastInputsTime, scenario, running, serverVars, auditVars, ghostVars,
                   wifiVars,
                   accessVars>>
    \/ /\ pc[Poller] = "pa_valid"
       /\ adc_cache' = [adc_cache EXCEPT ![loc[Poller].i].valid = ValidAfterUpdate]
       /\ committed' = [committed EXCEPT !.cache[loc[Poller].i] =
                           [val |-> loc[Poller].val, src |-> loc[Poller].ts,
                            srv |-> loc[Poller].srv]]
       /\ xSemaphoreGive(Poller)
       /\ IF loc[Poller].i + 1 < NUM_ADC_CHANNELS
          THEN /\ loc' = [loc EXCEPT ![Poller].i = loc[Poller].i + 1]
               /\ Goto(Poller, "pa_val")
               /\ UNCHANGED xLastAdcTime
          ELSE /\ loc' = [loc EXCEPT ![Poller] = NoLocals]
               /\ Goto(Poller, "p_top")
               /\ xLastAdcTime' = xNow
       /\ NoReturn
       /\ UNCHANGED <<timeVars, io_cache, model_adc, dalVars, diagVars,
                      xNow, xLastInputsTime, scenario, running, serverVars, auditVars,
                      lastOutOk, lastLoopOk, counterReads,
                   wifiVars,
                   accessVars>>

\* io_polling_task: the two initial readings of the tick count, then the
\* loop; an iteration in which nothing is due is one step
io_polling_task ==
    \/ /\ pc[Poller] = "p_start"
       /\ xLastInputsTime' = tick
       /\ Goto(Poller, "p_start2")
       /\ NoReturn
       /\ UNCHANGED <<timeVars, cacheVars, model_adc, dalVars, diagVars, xNow,
                      xLastAdcTime, scenario, running, serverVars, auditVars, ghostVars, loc,
                   wifiVars,
                   accessVars>>
    \/ /\ pc[Poller] = "p_start2"
       /\ xLastAdcTime' = tick
       /\ Goto(Poller, "p_top")
       /\ NoReturn
       /\ UNCHANGED <<timeVars, cacheVars, model_adc, dalVars, diagVars, xNow,
                      xLastInputsTime, scenario, running, serverVars, auditVars, ghostVars, loc,
                   wifiVars,
                   accessVars>>
    \/ /\ pc[Poller] = "p_top"
       /\ xNow' = tick
       /\ Goto(Poller, IF InputsDue(tick) THEN "pi_dal" ELSE AfterInputs(tick))
       /\ dropped' = [e \in DOMAIN dropped |->
                         IF InputsDue(tick) /\ dropped[e] = "dropped"
                         THEN "due" ELSE dropped[e]]
       /\ NoReturn
       /\ UNCHANGED <<timeVars, cacheVars, model_adc, dalVars, diagVars,
                      xLastInputsTime, xLastAdcTime, scenario, running, serverVars, counterAudit, initFailed,
                      ghostVars, loc,
                   wifiVars,
                   accessVars>>
    \/ read_discrete_inputs_slow
    \/ /\ pc[Poller] = "pi_ts"
       /\ loc' = [loc EXCEPT ![Poller].ts = get_current_time_ms(tick)]
       /\ Goto(Poller, "pi_take")
       /\ NoReturn
       /\ UNCHANGED <<timeVars, cacheVars, model_adc, dalVars, diagVars,
                      pollVars, scenario, running, serverVars, auditVars, ghostVars,
                   wifiVars,
                   accessVars>>
    \/ io_cache_update_discrete_inputs
    \/ update_all_adc_channels_slow

(***************************************************************************)
(* Start-up and shutdown (opcua_esp32.c, io_cache.c)                       *)
(***************************************************************************)
\* disconnect_handler: the network is lost and the server loops are told to
\* end; io_polling_task has no such flag in its while (1)
disconnect_handler ==
    /\ scenario \in {"stop", "reconnect"}
    /\ network = "up"
    /\ network' = "lost"
    /\ running' = FALSE
    /\ NoReturn
    /\ UNCHANGED <<timeVars, cacheVars, model_adc, dalVars, diagVars,
                   pollVars, scenario, auditVars, ghostVars, loc, pc,
                   isServerCreated, fallback_triggered, network_initialized,
                   opcua, handler,
                   wifiVars,
                   accessVars>>

(***************************************************************************)
(* Wi-Fi station (wifi_connect.c)                                          *)
(***************************************************************************)
\* g_config.wifi.max_retry
max_retry == 5

\* the clean-up at the end of wifi_connect, returning ESP_FAIL
wifi_cleanup ==
    /\ instance_any_id' = FALSE
    /\ s_wifi_event_group' = NoGroup
    /\ s_wifi_initialized' = FALSE
    /\ sta' = "stopped"
    /\ wifi_call' = [wifi_call EXCEPT !.pc = "idle", !.result = "ESP_FAIL",
                                      !.bits = s_wifi_event_group]

\* wifi_connect called by the network manager; the driver calls succeed
wifi_connect ==
    \/ /\ scenario = "wifi"
       /\ wifi_call.pc = "idle"
       /\ wifi_call.calls < MaxWifiCalls
       /\ IF s_wifi_initialized
          THEN /\ wifi_call' = [wifi_call EXCEPT
                                   !.calls = @ + 1,
                                   !.result = "ESP_ERR_INVALID_STATE"]
               /\ UNCHANGED <<s_wifi_event_group, instance_any_id,
                              s_wifi_initialized, sta>>
          ELSE /\ s_wifi_event_group' = {}
               /\ instance_any_id' = TRUE
               /\ s_wifi_initialized' = TRUE
               /\ sta' = "started"
               /\ wifi_call' = [pc |-> "wait", calls |-> wifi_call.calls + 1,
                                attempts |-> 0, bits |-> {},
                                result |-> "NONE"]
       /\ NoReturn
       /\ UNCHANGED <<timeVars, cacheVars, model_adc, dalVars, diagVars,
                      pollVars, scenario, running, serverVars, auditVars,
                      ghostVars, loc, pc, s_retry_num,
                   accessVars>>
    \/ /\ wifi_call.pc = "wait"
       /\ "WIFI_CONNECTED_BIT" \in s_wifi_event_group
       /\ wifi_call' = [wifi_call EXCEPT !.pc = "idle", !.result = "ESP_OK",
                                         !.bits = s_wifi_event_group]
       /\ NoReturn
       /\ UNCHANGED <<timeVars, cacheVars, model_adc, dalVars, diagVars,
                      pollVars, scenario, running, serverVars, auditVars,
                      ghostVars, loc, pc, s_retry_num, s_wifi_initialized,
                      s_wifi_event_group, instance_any_id, sta,
                   accessVars>>
    \/ /\ wifi_call.pc = "wait"
       /\ "WIFI_CONNECTED_BIT" \notin s_wifi_event_group
       /\ "WIFI_FAIL_BIT" \in s_wifi_event_group
       /\ wifi_cleanup
       /\ NoReturn
       /\ UNCHANGED <<timeVars, cacheVars, model_adc, dalVars, diagVars,
                      pollVars, scenario, running, serverVars, auditVars,
                      ghostVars, loc, pc, s_retry_num,
                   accessVars>>
    \/ /\ wifi_call.pc = "wait"
       /\ s_wifi_event_group = {}
       /\ wifi_cleanup
       /\ NoReturn
       /\ UNCHANGED <<timeVars, cacheVars, model_adc, dalVars, diagVars,
                      pollVars, scenario, running, serverVars, auditVars,
                      ghostVars, loc, pc, s_retry_num,
                   accessVars>>

\* wifi_disconnect called by the network manager
wifi_disconnect ==
    /\ scenario = "wifi"
    /\ wifi_call.pc = "idle"
    /\ s_wifi_initialized
    /\ instance_any_id' = FALSE
    /\ s_wifi_event_group' = NoGroup
    /\ s_wifi_initialized' = FALSE
    /\ sta' = "stopped"
    /\ NoReturn
    /\ UNCHANGED <<timeVars, cacheVars, model_adc, dalVars, diagVars,
                   pollVars, scenario, running, serverVars, auditVars,
                   ghostVars, loc, pc, s_retry_num, wifi_call,
                   accessVars>>

\* s_retry_num < g_config.wifi.max_retry
RetryAllowed(n) == n < max_retry

\* event_handler, run by the event loop task while it is registered
event_handler ==
    \/ /\ instance_any_id                       \* WIFI_EVENT_STA_START
       /\ sta = "started"
       /\ sta' = "connecting"
       /\ NoReturn
       /\ UNCHANGED <<timeVars, cacheVars, model_adc, dalVars, diagVars,
                      pollVars, scenario, running, serverVars, auditVars,
                      ghostVars, loc, pc, s_retry_num, s_wifi_initialized,
                      s_wifi_event_group, instance_any_id, wifi_call,
                   accessVars>>
    \/ /\ instance_any_id                       \* WIFI_EVENT_STA_DISCONNECTED
       /\ sta \in {"connecting", "connected"}
       /\ IF RetryAllowed(s_retry_num)
          THEN /\ sta' = "connecting"
               /\ s_retry_num' = s_retry_num + 1
               /\ wifi_call' = [wifi_call EXCEPT !.attempts = @ + 1]
               /\ UNCHANGED s_wifi_event_group
          ELSE /\ sta' = "started"
               /\ s_wifi_event_group' =
                     s_wifi_event_group \cup {"WIFI_FAIL_BIT"}
               /\ UNCHANGED <<s_retry_num, wifi_call>>
       /\ NoReturn
       /\ UNCHANGED <<timeVars, cacheVars, model_adc, dalVars, diagVars,
                      pollVars, scenario, running, serverVars, auditVars,
                      ghostVars, loc, pc, s_wifi_initialized,
                      instance_any_id,
                   accessVars>>
    \/ /\ instance_any_id                       \* IP_EVENT_STA_GOT_IP
       /\ sta = "connecting"
       /\ sta' = "connected"
       /\ s_retry_num' = 0
       /\ wifi_call' = [wifi_call EXCEPT !.attempts = 0]
       /\ s_wifi_event_group' =
             s_wifi_event_group \cup {"WIFI_CONNECTED_BIT"}
       /\ NoReturn
       /\ UNCHANGED <<timeVars, cacheVars, model_adc, dalVars, diagVars,
                      pollVars, scenario, running, serverVars, auditVars,
                      ghostVars, loc, pc, s_wifi_initialized,
                      instance_any_id,
                   accessVars>>

(***************************************************************************)
(* Access control (ua_accesscontrol_custom.c, config.c)                    *)
(***************************************************************************)
\* the C string that begins a buffer: the characters before the first NUL
CString(buf) ==
    LET nuls == {i \in 1 .. Len(buf) : buf[i] = NUL}
    IN IF nuls = {} THEN buf
       ELSE SubSeq(buf, 1, (CHOOSE i \in nuls : \A j \in nuls : i <= j) - 1)

\* char buf[32] = {0}; if (length > 0 && length < sizeof(buf)) memcpy(...)
TokenToBuffer(str) ==
    IF Len(str) > 0 /\ Len(str) < CredentialBufferSize
    THEN CString(str) ELSE <<>>

\* config_find_opcua_user: the index of the first enabled user whose name
\* strcmp finds equal, 0 for NULL
config_find_opcua_user(username) ==
    LET hits == {i \in 1 .. Len(g_config.opcua_users) :
                    /\ g_config.opcua_users[i].enabled
                    /\ g_config.opcua_users[i].username = username}
    IN IF ~g_config.init_complete \/ hits = {} THEN 0
       ELSE CHOOSE i \in hits : \A j \in hits : i <= j

\* config_check_opcua_password
config_check_opcua_password(user, password) ==
    /\ user # 0
    /\ g_config.opcua_users[user].enabled
    /\ g_config.opcua_users[user].password = password

\* the status activateSession_custom returns for token tk and, when it
\* assigns *sessionContext, the new context
ActivationResult(tk) ==
    LET bad == [status |-> "BADIDENTITYTOKENINVALID", assigns |-> FALSE,
                context |-> NullContext]
        denied == [bad EXCEPT !.status = "BADUSERACCESSDENIED"]
        anonymous == [status |-> "GOOD", assigns |-> TRUE,
                      context |-> NullContext]
        username == TokenToBuffer(tk.userName)
        password == TokenToBuffer(tk.password)
        user == config_find_opcua_user(username)
    IN CASE tk.kind = "NOBODY" ->
              IF allowAnonymous THEN anonymous ELSE bad
         [] tk.kind = "ENCODED" -> bad
         [] tk.kind = "anonymous" ->
              IF ~allowAnonymous THEN bad
              ELSE IF tk.policyId \notin {"", "open62541-anonymous-policy"}
              THEN bad ELSE anonymous
         [] tk.kind = "username" ->
              IF tk.policyId # "open62541-username-policy" THEN bad
              ELSE IF Len(tk.userName) = 0 /\ Len(tk.password) = 0 THEN bad
              ELSE IF user = 0 THEN denied
              ELSE IF ~config_check_opcua_password(user, password)
              THEN denied
              ELSE [status |-> "GOOD", assigns |-> TRUE,
                    context |-> g_config.opcua_users[user].rights]
         [] OTHER -> bad

\* activateSession_custom for a token a client sends
activateSession_custom ==
    /\ scenario = "access"
    /\ session.activations < MaxActivations
    /\ \E tk \in Tokens :
         LET r == ActivationResult(tk)
         IN session' = [session EXCEPT
                           !.activations = @ + 1,
                           !.context = IF r.assigns THEN r.context ELSE @,
                           !.token = IF r.status = "GOOD" THEN tk ELSE @,
                           !.level = NoLevel]
    /\ NoReturn
    /\ UNCHANGED <<timeVars, cacheVars, model_adc, dalVars, diagVars,
                   pollVars, scenario, running, serverVars, wifiVars,
                   auditVars, ghostVars, loc, pc, g_config, allowAnonymous>>

\* the access level getUserAccessLevel_custom computes from sessionContext
AccessLevel(context) ==
    IF ~g_config.opcua_auth_enable
    THEN {"BROWSE", "READ", "WRITE", "READHISTORY", "WRITEHISTORY", "OTHER"}
    ELSE IF context = NullContext THEN {"BROWSE", "READ"}
    ELSE (IF {"BROWSE", "ADMIN"} \cap context # {} THEN {"BROWSE"} ELSE {})
         \cup (IF {"READ", "ADMIN"} \cap context # {}
               THEN {"READ", "READHISTORY"} ELSE {})
         \cup (IF {"WRITE", "ADMIN"} \cap context # {}
               THEN {"WRITE", "WRITEHISTORY"} ELSE {})

\* getUserAccessLevel_custom for a node the activated session addresses
getUserAccessLevel_custom ==
    /\ scenario = "access"
    /\ session.token # NoToken
    /\ session.level = NoLevel
    /\ session' = [session EXCEPT !.level = AccessLevel(session.context)]
    /\ NoReturn
    /\ UNCHANGED <<timeVars, cacheVars, model_adc, dalVars, diagVars,
                   pollVars, scenario, running, serverVars, wifiVars,
                   auditVars, ghostVars, loc, pc, g_config, allowAnonymous>>

\* the main file a run is built from: config.wf.c in scenario fallback,
\* opcua_esp32.c otherwise
IsWfBuild == scenario = "fallback"

\* the opcua_task that exist
ServerTasks == {w \in Workers : opcua[w] # "absent"}

\* results of xTaskCreatePinnedToCore: the heap has room for the stack
TaskCreateResults == {TRUE}
\* results of UA_Server_new and UA_Server_run_startup
ServerStartResults == {TRUE}

\* xTaskCreatePinnedToCore(opcua_task, ...), and isServerCreated = true
\* when it returned pdPASS
xTaskCreate_opcua_task(ok) ==
    IF ok /\ ServerTasks # Workers
    THEN /\ opcua' = [opcua EXCEPT
                         ![CHOOSE w \in Workers : opcua[w] = "absent"] =
                             "startup"]
         /\ isServerCreated' = TRUE
    ELSE UNCHANGED <<opcua, isServerCreated>>

\* opc_event_handler (opcua_esp32.c), run by the event loop task on
\* IP_EVENT / GOT_IP_EVENT
opc_event_handler ==
    /\ scenario = "reconnect"
    /\ network \in {"down", "lost"}
    /\ network' = (IF network = "down" THEN "up" ELSE "back")
    /\ IF ~isServerCreated
       THEN \E ok \in TaskCreateResults : xTaskCreate_opcua_task(ok)
       ELSE UNCHANGED <<opcua, isServerCreated>>
    /\ NoReturn
    /\ UNCHANGED <<timeVars, cacheVars, model_adc, dalVars, diagVars,
                   pollVars, scenario, running, auditVars, ghostVars, loc, pc,
                   fallback_triggered, network_initialized, handler,
                   wifiVars,
                   accessVars>>

\* where the caller c of check_and_start_opcua goes on after the return
AfterCheck(c) == IF c = "event" THEN "idle" ELSE "done"

\* check_and_start_opcua (config.wf.c) called by c, the event loop task or
\* the fallback task
check_and_start_opcua(c) ==
    \/ /\ handler[c] = "check"
       /\ handler' = [handler EXCEPT
                         ![c] = IF isServerCreated THEN AfterCheck(c)
                                ELSE "netif"]
       /\ NoReturn
       /\ UNCHANGED <<timeVars, cacheVars, model_adc, dalVars, diagVars,
                      pollVars, scenario, running, auditVars, ghostVars, loc,
                      pc, isServerCreated, fallback_triggered,
                      network_initialized, network, opcua,
                   wifiVars,
                   accessVars>>
    \/ /\ handler[c] = "netif"
       /\ \E found \in (IF network \in {"up", "back"} THEN {TRUE}
                         ELSE BOOLEAN) :
            handler' = [handler EXCEPT
                           ![c] = IF found THEN "create" ELSE AfterCheck(c)]
       /\ NoReturn
       /\ UNCHANGED <<timeVars, cacheVars, model_adc, dalVars, diagVars,
                      pollVars, scenario, running, auditVars, ghostVars, loc,
                      pc, isServerCreated, fallback_triggered,
                      network_initialized, network, opcua,
                   wifiVars,
                   accessVars>>
    \/ /\ handler[c] = "create"
       /\ \E ok \in TaskCreateResults : xTaskCreate_opcua_task(ok)
       /\ handler' = [handler EXCEPT ![c] = AfterCheck(c)]
       /\ NoReturn
       /\ UNCHANGED <<timeVars, cacheVars, model_adc, dalVars, diagVars,
                      pollVars, scenario, running, auditVars, ghostVars, loc,
                      pc, fallback_triggered, network_initialized, network,
                   wifiVars,
                   accessVars>>

\* opc_network_state_callback (config.wf.c), run by the event loop task
\* from notify_state_change
opc_network_state_callback ==
    \/ /\ scenario = "fallback"
       /\ handler.event = "idle"
       /\ network \in {"down", "lost"}
       /\ network' = (IF network = "down" THEN "up" ELSE "back")
       /\ network_initialized' = TRUE
       /\ handler' = [handler EXCEPT !.event = "check"]
       /\ NoReturn
       /\ UNCHANGED <<timeVars, cacheVars, model_adc, dalVars, diagVars,
                      pollVars, scenario, running, auditVars, ghostVars, loc,
                      pc, isServerCreated, fallback_triggered, opcua,
                   wifiVars,
                   accessVars>>
    \/ check_and_start_opcua("event")
    \/ /\ scenario = "fallback"
       /\ handler.event = "idle"
       /\ network = "up"
       /\ network' = "lost"
       /\ network_initialized' = FALSE
       /\ running' = FALSE
       /\ NoReturn
       /\ UNCHANGED <<timeVars, cacheVars, model_adc, dalVars, diagVars,
                      pollVars, scenario, auditVars, ghostVars, loc, pc,
                      isServerCreated, fallback_triggered, opcua, handler,
                   wifiVars,
                   accessVars>>

\* start_opcua_fallback (config.wf.c), a task of its own
start_opcua_fallback ==
    \/ /\ handler.fallback = "wait"
       /\ IF ~isServerCreated /\ ~fallback_triggered
          THEN /\ fallback_triggered' = TRUE
               /\ handler' = [handler EXCEPT !.fallback = "check"]
          ELSE /\ UNCHANGED fallback_triggered
               /\ handler' = [handler EXCEPT !.fallback = "done"]
       /\ NoReturn
       /\ UNCHANGED <<timeVars, cacheVars, model_adc, dalVars, diagVars,
                      pollVars, scenario, running, auditVars, ghostVars, loc,
                      pc, isServerCreated, network_initialized, network,
                      opcua,
                   wifiVars,
                   accessVars>>
    \/ check_and_start_opcua("fallback")

\* opcua_task of server task w: UA_Server_new to UA_Server_run_startup,
\* the loop while (running), and the shutdown; the callbacks above run
\* inside UA_Server_run_iterate
opcua_task(w) ==
    \/ /\ opcua[w] = "startup"
       /\ \E ok \in ServerStartResults :
            IF ok
            THEN /\ opcua' = [opcua EXCEPT ![w] = "loop"]
                 /\ running' = (IF IsWfBuild THEN TRUE ELSE running)
            ELSE /\ opcua' = [opcua EXCEPT ![w] = "absent"]
                 /\ UNCHANGED running
       /\ NoReturn
       /\ UNCHANGED <<timeVars, cacheVars, model_adc, dalVars, diagVars,
                      pollVars, scenario, auditVars, ghostVars, loc, pc,
                      isServerCreated, fallback_triggered,
                      network_initialized, network, handler,
                   wifiVars,
                   accessVars>>
    \/ /\ opcua[w] = "loop"
       /\ pc[w] = "idle"
       /\ ~running
       /\ opcua' = [opcua EXCEPT ![w] = "shutdown"]
       /\ NoReturn
       /\ UNCHANGED <<timeVars, cacheVars, model_adc, dalVars, diagVars,
                      pollVars, scenario, running, auditVars, ghostVars, loc,
                      pc, isServerCreated, fallback_triggered,
                      network_initialized, network, handler,
                   wifiVars,
                   accessVars>>
    \/ /\ opcua[w] = "shutdown"
       /\ opcua' = [opcua EXCEPT ![w] = "absent"]
       /\ isServerCreated' = (IF IsWfBuild THEN FALSE ELSE isServerCreated)
       /\ NoReturn
       /\ UNCHANGED <<timeVars, cacheVars, model_adc, dalVars, diagVars,
                      pollVars, scenario, running, auditVars, ghostVars, loc,
                      pc, fallback_triggered, network_initialized, network,
                      handler,
                   wifiVars,
                   accessVars>>

\* xSemaphoreTake(io_cache.mutex, ...) of a cache update of the polling
\* task on the NULL handle that io_cache_init left behind: configASSERT
\* fails in xQueueSemaphoreTake, or the handle is dereferenced, and the
\* system panics
xSemaphoreTake_NULL ==
    /\ mutex = NullHandle
    /\ pc[Poller] \in {"pi_take", "pa_take"}
    /\ pc' = [t \in Tasks |-> "panic"]
    /\ NoReturn
    /\ UNCHANGED <<timeVars, cacheVars, model_adc, dalVars, diagVars,
                   pollVars, scenario, running, serverVars, auditVars, ghostVars, loc,
                   wifiVars,
                   accessVars>>

(***************************************************************************)
(* Time                                                                    *)
(***************************************************************************)
\* the tick interrupt: TickType_t is 32 bits wide
TickInterrupt ==
    /\ ticksLeft > 0
    /\ tick' = Add32(tick, U32(1))
    /\ ticksLeft' = ticksLeft - 1
    /\ NoReturn
    /\ UNCHANGED <<wrapped, cacheVars, model_adc, dalVars, diagVars,
                   pollVars, scenario, running, serverVars, auditVars, ghostVars, loc, pc,
                   wifiVars,
                   accessVars>>

\* An idle stretch up to the last tick before the millisecond product
\* overflows: no client has a request in flight, and the polling task stands
\* at its loop top after an iteration that sampled xNow = LastTickBeforeWrap
\* and ran both the input poll and the ADC pass within that tick.  The
\* fields the polling task owns hold what that iteration stored; everything
\* else is as the clients left it.
IdleUntilWrap ==
    /\ scenario = "poll"
    /\ ~wrapped
    /\ \A w \in Workers : pc[w] = "idle"
    /\ pc[Poller] = "p_top"
    /\ mutex = NoTask
    /\ dio_initialized
    /\ tick' = LastTickBeforeWrap
    /\ ticksLeft' = WrapTicks
    /\ wrapped' = TRUE
    /\ xNow' = LastTickBeforeWrap
    /\ xLastInputsTime' = LastTickBeforeWrap
    /\ xLastAdcTime' = LastTickBeforeWrap
    /\ \E in \in InBytes, raw \in AdcCodes :
         LET now == get_current_time_ms(LastTickBeforeWrap)
             word == MakeWord(InvertByte(in[1]), InvertByte(in[2]))
         IN /\ io_cache' = [io_cache EXCEPT
                               !.discrete_inputs_cache = word,
                               !.inputs_timestamp_ms = now,
                               !.inputs_server_timestamp_ms = now]
            /\ committed' = [committed EXCEPT
                                !.inputs = [val |-> word, src |-> now,
                                            srv |-> now],
                                !.adc = [c \in Channels |->
                                           [val |-> raw, src |-> now]],
                                !.cache = [c \in Channels |->
                                             [val |-> raw, src |-> now,
                                              srv |-> now]]]
            /\ adc_cache' = [c \in Channels |->
                                [value |-> raw, timestamp_ms |-> now,
                                 server_timestamp_ms |-> now, valid |-> TRUE]]
            /\ model_adc' = [c \in Channels |->
                                [value |-> raw, timestamp_ms |-> now,
                                 server_timestamp_ms |-> now]]
    /\ NoReturn
    /\ UNCHANGED <<mutex, dalVars, diagVars, scenario, running, serverVars, auditVars, lastOutOk,
                   lastLoopOk, counterReads, loc, pc,
                   wifiVars,
                   accessVars>>

\* The last tick at which the first ADC pass is not yet due
LastTickBeforeAdc == U32((POLL_ADC_INTERVAL_MS \div portTICK_PERIOD_MS) - 1)

\* The tick at which the last input poll before LastTickBeforeAdc began: in
\* the adcfault scenario the polls have kept their rhythm of
\* POLL_INPUTS_INTERVAL_MS from tick 0, in the adc scenario they have
\* drifted by one tick
LastInputPollBeforeAdc(s) ==
    IF s = "adcfault"
    THEN Sub32(LastTickBeforeAdc, U32(1))
    ELSE LastTickBeforeAdc

\* An idle stretch from start-up to the last tick before the first ADC pass
\* is due: no client has a request in flight, and the polling task stands at
\* its loop top after an iteration that sampled xNow = LastTickBeforeAdc;
\* its last input poll was made within tick LastInputPollBeforeAdc.  The
\* first input poll has set up the expanders; the ADC arrays are as app_main
\* left them.
IdleUntilAdcDue ==
    /\ scenario \in {"adc", "adcfault"}
    /\ ~wrapped
    /\ \A w \in Workers : pc[w] = "idle"
    /\ pc[Poller] = "p_top"
    /\ mutex = NoTask
    /\ tick = Zero32
    /\ xLastAdcTime = Zero32
    /\ tick' = LastTickBeforeAdc
    /\ ticksLeft' = AdcTicks
    /\ wrapped' = TRUE
    /\ xNow' = LastTickBeforeAdc
    /\ xLastInputsTime' = LastInputPollBeforeAdc(scenario)
    /\ dio_initialized' = TRUE
    /\ i2c_initialized' = TRUE
    /\ \E in \in InBytesOf(scenario) :
         LET now == get_current_time_ms(LastInputPollBeforeAdc(scenario))
             word == MakeWord(InvertByte(in[1]), InvertByte(in[2]))
         IN /\ io_cache' = [io_cache EXCEPT
                               !.discrete_inputs_cache = word,
                               !.inputs_timestamp_ms = now,
                               !.inputs_server_timestamp_ms = now]
            /\ committed' = [committed EXCEPT !.inputs =
                                [val |-> word, src |-> now, srv |-> now]]
    /\ NoReturn
    /\ UNCHANGED <<mutex, adc_cache, model_adc, expander_out, diagVars,
                   xLastAdcTime, scenario, running, serverVars, auditVars, lastOutOk, lastLoopOk,
                   counterReads, loc, pc,
                   wifiVars,
                   accessVars>>

\* The tick at which the first ADC pass is due, and the last tick at which
\* the second one is not yet due
FirstAdcTick == U32(POLL_ADC_INTERVAL_MS \div portTICK_PERIOD_MS)
LastTickBeforeSecondAdc ==
    U32((2 * (POLL_ADC_INTERVAL_MS \div portTICK_PERIOD_MS)) - 1)

\* An idle stretch from start-up to the last tick before the second ADC
\* pass is due: no client has a request in flight, and the polling task
\* stands at its loop top after an iteration that sampled
\* xNow = LastTickBeforeSecondAdc and polled the inputs within that tick.
\* The first ADC pass ran within tick FirstAdcTick and stored every channel.
IdleUntilSecondAdcPass ==
    /\ scenario = "getadc"
    /\ ~wrapped
    /\ \A w \in Workers : pc[w] = "idle"
    /\ pc[Poller] = "p_top"
    /\ mutex = NoTask
    /\ tick = Zero32
    /\ xLastAdcTime = Zero32
    /\ tick' = LastTickBeforeSecondAdc
    /\ ticksLeft' = AdcTicks
    /\ wrapped' = TRUE
    /\ xNow' = LastTickBeforeSecondAdc
    /\ xLastInputsTime' = LastTickBeforeSecondAdc
    /\ xLastAdcTime' = FirstAdcTick
    /\ dio_initialized' = TRUE
    /\ i2c_initialized' = TRUE
    /\ \E in \in InBytesOf(scenario), raw \in AdcCodes :
         LET now == get_current_time_ms(LastTickBeforeSecondAdc)
             first == get_current_time_ms(FirstAdcTick)
             word == MakeWord(InvertByte(in[1]), InvertByte(in[2]))
         IN /\ io_cache' = [io_cache EXCEPT
                               !.discrete_inputs_cache = word,
                               !.inputs_timestamp_ms = now,
                               !.inputs_server_timestamp_ms = now]
            /\ committed' = [committed EXCEPT
                                !.inputs = [val |-> word, src |-> now,
                                            srv |-> now],
                                !.adc = [c \in Channels |->
                                           [val |-> raw, src |-> first]],
                                !.cache = [c \in Channels |->
                                             [val |-> raw, src |-> first,
                                              srv |-> first]]]
            /\ adc_cache' = [c \in Channels |->
                                [value |-> raw, timestamp_ms |-> first,
                                 server_timestamp_ms |-> first, valid |-> TRUE]]
            /\ model_adc' = [c \in Channels |->
                                [value |-> raw, timestamp_ms |-> first,
                                 server_timestamp_ms |-> first]]
    /\ NoReturn
    /\ UNCHANGED <<mutex, expander_out, diagVars, scenario, running, serverVars, auditVars,
                   lastOutOk, lastLoopOk, counterReads, loc, pc,
                   wifiVars,
                   accessVars>>

(***************************************************************************)
(* Specification                                                           *)
(***************************************************************************)
Next ==
    \/ \E w \in Workers : readDiscreteInputs(w)
    \/ \E w \in Workers : readDiscreteOutputs(w)
    \/ \E w \in Workers : writeDiscreteOutputs(w)
    \/ \E w \in Workers : readAdcChannel(w)
    \/ \E w \in Workers : io_cache_get_adc_channel(w)
    \/ \E w \in Workers : readDiagnosticCounter(w)
    \/ \E w \in Workers : readLoopbackInput(w)
    \/ \E w \in Workers : readLoopbackOutput(w)
    \/ \E w \in Workers : writeLoopbackInput(w)
    \/ \E w \in Workers : writeReadOnlyNode(w)
    \/ io_polling_task
    \/ TickInterrupt
    \/ IdleUntilWrap
    \/ IdleUntilAdcDue
    \/ IdleUntilSecondAdcPass
    \/ ReadsUntilCounterWrap
    \/ disconnect_handler
    \/ opc_event_handler
    \/ opc_network_state_callback
    \/ start_opcua_fallback
    \/ \E w \in Workers : opcua_task(w)
    \/ activateSession_custom
    \/ getUserAccessLevel_custom
    \/ wifi_connect
    \/ wifi_disconnect
    \/ event_handler
    \/ xSemaphoreTake_NULL

Spec == Init /\ [][Next]_vars

(***************************************************************************)
(* Properties                                                              *)
(***************************************************************************)
\* the replies of the read callbacks of the two cache entries
InputsTriple == <<committed.inputs.val, committed.inputs.src,
                  committed.inputs.srv>>
OutputsTriple == <<committed.outputs.val, committed.outputs.src,
                   committed.outputs.srv>>
ReplyTriple == <<reply.value, reply.srcms, reply.srvms>>

\* C1: a read of discrete_outputs that follows a successful write of W,
\* with no other write in between, returns W.
C1_WriteThenRead ==
    (reply.op = "ReadOutputs" /\ reply.exp # NoWord)
        => reply.value = reply.exp

\* C2: a read of an ADC channel made while the channel's validity flag is
\* still false is answered with a bad status and carries no value.
C2_BadValueBeforeFirstSample ==
    (reply.op = "ReadAdc" /\ reply.arg < NUM_ADC_CHANNELS /\ ~reply.seen)
        => (reply.status # "GOOD" /\ ~reply.hasValue)

\* C3: a read of the discrete inputs entry or of the discrete outputs entry
\* that took the mutex returns a word and two timestamps that one update
\* stored together (or the three initial zeros).
C3_CoherentRead ==
    /\ (reply.op = "ReadInputs" /\ reply.seen) => ReplyTriple = InputsTriple
    /\ (reply.op = "ReadOutputs" /\ reply.seen) => ReplyTriple = OutputsTriple

\* a read of discrete_outputs returns a written word with its timestamps
\* while the other server task waits for the mutex with the next update
C3_Witness ==
    /\ reply.op = "ReadOutputs"
    /\ reply.seen
    /\ reply.value # 0
    /\ reply.srvms # Zero32
    /\ pc["w1"] = "wo_take"

\* C4: a read of an ADC channel that attaches a source timestamp returns a
\* raw code and a timestamp that one poll pass stored together.
C4_AdcPairFromOnePass ==
    (reply.op = "ReadAdc" /\ reply.sourceSet)
        => /\ reply.value = committed.adc[reply.arg].val
           /\ reply.srcms = committed.adc[reply.arg].src

\* C5: whenever no update is in progress, every cache entry's server
\* timestamp is at least its source timestamp.
C5_ServerNotBeforeSource ==
    mutex = NoTask =>
        /\ Geq32(io_cache.inputs_server_timestamp_ms,
                 io_cache.inputs_timestamp_ms)
        /\ Geq32(io_cache.outputs_server_timestamp_ms,
                 io_cache.outputs_timestamp_ms)
        /\ \A c \in Channels :
              Geq32(adc_cache[c].server_timestamp_ms,
                    adc_cache[c].timestamp_ms)

\* C6: no step makes a source timestamp or a server timestamp of a cache
\* entry smaller than it was.
C6_TimestampsNeverDecrease ==
    [][/\ Geq32(io_cache'.inputs_timestamp_ms, io_cache.inputs_timestamp_ms)
       /\ Geq32(io_cache'.inputs_server_timestamp_ms,
                io_cache.inputs_server_timestamp_ms)
       /\ Geq32(io_cache'.outputs_timestamp_ms, io_cache.outputs_timestamp_ms)
       /\ Geq32(io_cache'.outputs_server_timestamp_ms,
                io_cache.outputs_server_timestamp_ms)
       /\ \A c \in Channels :
             /\ Geq32(adc_cache'[c].timestamp_ms, adc_cache[c].timestamp_ms)
             /\ Geq32(adc_cache'[c].server_timestamp_ms,
                      adc_cache[c].server_timestamp_ms)]_vars

\* the write requests a client can send
WriteOps == {"WriteOutputs", "WriteLoopIn", "WriteReadOnly"}

\* this step is a step of a write request served by task w
WriteStep(w) ==
    \/ /\ pc'[w] # pc[w]
       /\ (loc[w].op \in WriteOps \/ loc'[w].op \in WriteOps)
    \/ /\ reply'.task = w
       /\ reply'.op \in WriteOps

\* the stored values of discrete_inputs, adc_channel_1..4 and
\* diagnostic_counter
ReadOnlyValues ==
    <<io_cache.discrete_inputs_cache,
      [c \in Channels |-> model_adc[c].value],
      [c \in Channels |-> adc_cache[c].value],
      diagnostic_counter>>

\* C7 as stated: no step of a write request changes the stored value of
\* discrete_inputs, adc_channel_1..4, diagnostic_counter or loopback_output.
C7_WritesChangeNoReadOnlyValue ==
    [][(\E w \in Workers : WriteStep(w))
          => UNCHANGED <<ReadOnlyValues, loopback_output>>]_vars

\* C7, amended: no step of a write request changes the stored value of
\* discrete_inputs, adc_channel_1..4 or diagnostic_counter, and
\* loopback_output changes only in the last step of a write to
\* loopback_input, to the written word.
C7_WritesChangeOnlyTheMirror ==
    [][/\ (\E w \in Workers : WriteStep(w)) => UNCHANGED ReadOnlyValues
       /\ loopback_output' # loopback_output
             => \E w \in Workers :
                   /\ pc[w] = "wl_out"
                   /\ pc'[w] = "idle"
                   /\ loopback_output' = loc[w].val]_vars

\* a write to a read-only node is refused after a loopback write has
\* changed loopback_output
C7_Witness ==
    /\ reply.op = "WriteReadOnly"
    /\ reply.status = "BADNOTWRITABLE"
    /\ loopback_output # 0
    /\ loopback_output = loopback_input

\* C8: a write to discrete_outputs or to loopback_input whose payload is not
\* a 16-bit unsigned scalar returns the type-mismatch status in the step in
\* which it is received, and that step changes neither the mutex, the cache,
\* the ADC arrays, the DAL state, the expander latches nor the diagnostic
\* variables.
C8_MismatchHasNoEffect ==
    [][(reply'.op \in {"WriteOutputs", "WriteLoopIn"} /\ reply'.kind # "UINT16")
          => /\ reply'.status = "BADTYPEMISMATCH"
             /\ pc[reply'.task] = "idle"
             /\ UNCHANGED <<mutex, io_cache, adc_cache, model_adc, dalVars,
                            diagVars, committed>>]_vars

\* a 32-bit scalar written to discrete_outputs is refused while the cache
\* holds a word written before
C8_Witness ==
    /\ reply.op = "WriteOutputs"
    /\ reply.kind = "UINT32"
    /\ reply.status = "BADTYPEMISMATCH"
    /\ io_cache.discrete_outputs_cache # 0
    /\ expander_out.out1 # 255

\* C9: a read of loopback_output that follows a successful write of V to
\* loopback_input, with no other loopback write in between, returns V.
C9_LoopbackRoundTrip ==
    (reply.op = "ReadLoopOut" /\ reply.exp # NoWord)
        => reply.value = reply.exp

\* loopback_output returns the written word while the polling task holds
\* the cache mutex in its ADC pass
C9_Witness ==
    /\ reply.op = "ReadLoopOut"
    /\ reply.exp # NoWord
    /\ reply.value = reply.exp
    /\ mutex = Poller
    /\ pc[Poller] = "pa_valid"

\* C10: no read of loopback_output returns a word other than the one
\* loopback_input holds at that moment.
C10_MirrorIsAtomic ==
    reply.op = "ReadLoopOut" => reply.value = loopback_input

\* the value diagnostic_counter held when the counted reads began
CounterBase ==
    IF scenario = "counter" /\ wrapped THEN LastCountBeforeWrap ELSE 0

\* C11: whenever no read of diagnostic_counter is in progress, the counter
\* has advanced by one per read served, modulo 2^16, and no read returns
\* the value that the last read of some caller returned.
C11_NoIncrementLost ==
    /\ (\A w \in Workers : loc[w].op # "ReadCounter")
          => diagnostic_counter = (CounterBase + counterReads) % WordModulus
    /\ reply.op = "ReadCounter"
          => \A c \in Callers :
                (c # reply.caller /\ counterSeen[c] # NoWord)
                    => counterSeen[c] # reply.value

\* C12 as stated: a read of diagnostic_counter returns the value the same
\* caller's previous read returned, plus one modulo 2^16.
C12_SuccessiveReads ==
    (reply.op = "ReadCounter" /\ reply.prev # NoWord)
        => reply.value = (reply.prev + 1) % WordModulus

\* C12, amended: a read of diagnostic_counter returns the value the same
\* caller's previous read returned, plus one modulo 2^16, when no other
\* caller's read of the counter was served between the two; a read made
\* when the counter holds 65535 returns 0.
C12_SuccessiveReadsAlone ==
    (reply.op = "ReadCounter" /\ reply.prevAlone # NoWord)
        => reply.value = (reply.prevAlone + 1) % WordModulus

\* a caller reads 65535 and then, with no other read in between, 0
C12_Witness ==
    /\ reply.op = "ReadCounter"
    /\ reply.prevAlone = WordModulus - 1
    /\ reply.value = 0

\* the step in which task t leaves the xSemaphoreTake of a cache update
\* at label take without the mutex
DropsUpdate(t, take, stores) ==
    /\ pc[t] = take /\ TakeTimesOut(t)
    /\ pc'[t] # take /\ pc'[t] # stores

\* C14: an update of the inputs entry, the outputs entry or an ADC channel
\* whose xSemaphoreTake times out modifies no field of the cache, the
\* polling task goes on with its loop, and by the end of the next due poll
\* cycle a new update of the entry has been attempted.
C14_DroppedUpdateIsRetried ==
    [][/\ \A w \in Workers :
            DropsUpdate(w, "wo_take", "wo_src")
               => UNCHANGED <<io_cache, adc_cache, mutex>>
       /\ DropsUpdate(Poller, "pi_take", "pi_src")
            => /\ UNCHANGED <<io_cache, adc_cache, mutex>>
               /\ pc'[Poller] \in {"pa_ts", "p_top"}
       /\ DropsUpdate(Poller, "pa_take", "pa_src")
            => /\ UNCHANGED <<io_cache, adc_cache, mutex>>
               /\ pc'[Poller] \in {"pa_val", "p_top"}
       /\ (pc[Poller] # "p_top" /\ pc'[Poller] \in {"pa_ts", "p_top"})
            => \A e \in DOMAIN dropped : dropped'[e] # "due"]_vars

\* C15: once an input poll has been stored in the cache, the source
\* timestamp that a read of discrete_inputs obtains is not zero.
C15_SourceTimestampAfterFirstPoll ==
    (reply.op = "ReadInputs" /\ committed.inputs.src # Zero32)
       => reply.srcms # Zero32

\* C16: the polling task never stores the word InputsSentinel that the
\* DAL returns on failure, so the inputs entry and the replies of the reads
\* of discrete_inputs keep the word of the last successful hardware read.
C16_SentinelNotStored ==
    [][/\ (pc[Poller] = "pi_take" /\ loc[Poller].val = InputsSentinel
            /\ pc'[Poller] # "pi_take")
           => io_cache'.discrete_inputs_cache = io_cache.discrete_inputs_cache
       /\ reply'.op = "ReadInputs" => reply'.value # InputsSentinel]_vars

\* C17: read_discrete_inputs_slow returns 0xFFFF whenever a bus access of
\* the call has failed, be it the set-up of the bus or the read transaction
\* of one of the two input expanders.
C17_BusFailureGivesSentinel ==
    (pc[Poller] = "pi_ts" /\ ~loc[Poller].busok)
       => loc[Poller].val = InputsSentinel

\* C18: once a call of discrete_io_init has failed to set up the bus,
\* dio_initialized stays false and every later call of
\* read_discrete_inputs_slow returns InputsSentinel.
C18_InitFailureIsSticky ==
    initFailed => /\ ~dio_initialized
                  /\ pc[Poller] = "pi_ts" => loc[Poller].val = InputsSentinel

\* task t is in discrete_io_init between the successful set-up of the bus
\* and dio_initialized = true: it writes the safe-state pattern
InSafeWrites(t) ==
    pc[t] \in {"wo_init_safe1", "wo_init_safe2", "wo_init_done",
               "pi_init_safe1", "pi_init_safe2", "pi_init_done"}

\* C19: discrete_io_init writes the safe-state pattern to the output
\* expanders once, whichever tasks make the first calls into the DAL: no
\* two tasks are writing it, and none starts to write it once
\* dio_initialized is set.
C19_SafeStateWrittenOnce ==
    /\ \A t, u \in Tasks : (InSafeWrites(t) /\ InSafeWrites(u)) => t = u
    /\ dio_initialized
          => \A t \in Tasks : pc[t] \notin {"wo_init_safe1", "pi_init_safe1"}

\* C20: an ADC pass is published in one locked update: whenever the
\* polling task does not hold the mutex, the four channels of the cache are
\* of one pass, with one source timestamp and one validity.
C20_AdcPassPublishedWhole ==
    mutex # Poller
       => \A c, d \in Channels :
             /\ adc_cache[c].timestamp_ms = adc_cache[d].timestamp_ms
             /\ adc_cache[c].valid = adc_cache[d].valid

C22_PollingStopsOnShutdown ==
    [][(~running /\ pc[Poller] = "p_top")
          => pc'[Poller] \notin {"pi_dal", "pa_ts"}]_vars

\* C23: when io_cache_init could not create the mutex, the polling task is
\* not started, so it never leaves its entry point and never reaches the
\* xSemaphoreTake of a cache update.
C23_NoPollingWithoutMutex ==
    mutex = NullHandle => pc[Poller] = "p_start"

\* this step is a step of the polling task: its position, its locals or
\* its tick counts change
PollerStep ==
    <<pc[Poller], loc[Poller], pollVars>>' # <<pc[Poller], loc[Poller], pollVars>>

\* the discrete outputs entry of the cache
OutputsEntry ==
    <<io_cache.discrete_outputs_cache, io_cache.outputs_timestamp_ms,
      io_cache.outputs_server_timestamp_ms>>

\* C24: no step of the polling task changes the discrete outputs entry of
\* the cache, diagnostic_counter, loopback_input or loopback_output; and the
\* outputs entry changes only in a step of a write to discrete_outputs, so
\* that between two writes its word and its timestamps stay as they are.
C24_PollingLeavesOutputsAlone ==
    [][/\ PollerStep => UNCHANGED <<OutputsEntry, diagVars>>
       /\ OutputsEntry' # OutputsEntry
             => \E w \in Workers : pc'[w] # pc[w] /\ loc[w].op = "WriteOutputs"]_vars

\* the word 0x0008 has been written and stored, and the polling task has
\* stored an input poll with a later timestamp and stands at its loop top
C24_Witness ==
    /\ io_cache.discrete_outputs_cache = 8
    /\ committed.outputs.val = 8
    /\ \A w \in Workers : pc[w] = "idle"
    /\ pc[Poller] = "p_top"
    /\ Less32(io_cache.outputs_timestamp_ms, io_cache.inputs_timestamp_ms)
    /\ io_cache.inputs_server_timestamp_ms = io_cache.inputs_timestamp_ms

\* the read requests a client can send
ReadOps == {"ReadInputs", "ReadOutputs", "ReadAdc", "ReadCounter",
            "ReadLoopIn", "ReadLoopOut"}

\* C25: every read of diagnostic_counter, loopback_input, loopback_output,
\* discrete_inputs, discrete_outputs or of one of the four registered ADC
\* nodes is answered with the Good status and a value, whatever the other
\* tasks are doing.
C25_ReadsAreGood ==
    (reply.op \in ReadOps /\ (reply.op = "ReadAdc" => reply.ctx \in Channels))
        => reply.status = "GOOD" /\ reply.hasValue

\* a read of discrete_outputs returns Good while another server task is
\* inside a write of discrete_outputs and holds the mutex
C25_Witness ==
    /\ reply.op = "ReadOutputs"
    /\ reply.status = "GOOD"
    /\ \E w \in Workers : loc[w].op = "WriteOutputs" /\ mutex = w

\* C26: no failed DAL operation ends the process, and in a run with failing
\* DAL operations no reply carries an error status.
C26_DalFailureIsSurvived ==
    /\ \A t \in Tasks : pc[t] # "abort"
    /\ scenario \in {"fault", "adcfault"} => reply.status \in {"NONE", "GOOD"}

\* the positions of a task inside a DAL function: discrete_io_init,
\* read_discrete_inputs_slow, write_discrete_outputs_slow and
\* read_adc_channel_slow
DalLabels ==
    {"pi_dal", "pi_init", "pi_init_safe1", "pi_init_safe2", "pi_init_done",
     "pi_retest", "pi_read", "pa_val",
     "wo_init", "wo_init_safe1", "wo_init_safe2", "wo_init_done",
     "wo_retest", "wo_out1", "wo_out2"}

\* C27: no task holds the cache mutex while it is inside a DAL function,
\* and a server task that serves a write of discrete_outputs takes the
\* mutex only from the position that follows the return of
\* write_discrete_outputs_slow and the reading of the clock.
C27_NoDalUnderMutex ==
    [][/\ \A t \in Tasks : pc[t] \in DalLabels => mutex # t
       /\ \A w \in Workers :
             (mutex' = w /\ mutex # w /\ loc[w].op = "WriteOutputs")
                => pc[w] = "wo_take"]_vars

\* a server task is writing the second output expander while the polling
\* task holds the mutex for a cache update
C27_Witness ==
    /\ \E w \in Workers : pc[w] = "wo_out2" /\ loc[w].op = "WriteOutputs"
    /\ mutex = Poller
    /\ pc[Poller] \in {"pi_src", "pi_srv"}

\* the word on the output expanders, after undoing the inversion
ExpanderWord ==
    MakeWord(InvertByte(expander_out.out1), InvertByte(expander_out.out2))

\* C28: while no server task is inside a write of discrete_outputs, the
\* cached discrete_outputs word is the word on the output expanders.
C28_CacheMirrorsExpanders ==
    (\A w \in Workers : loc[w].op # "WriteOutputs")
        => io_cache.discrete_outputs_cache = ExpanderWord

\* the positions of a task between the xSemaphoreTake and the
\* xSemaphoreGive of a cache function
CriticalLabels ==
    {"ri_src", "ri_srv", "ro_src", "ro_srv", "wo_src", "wo_srv",
     "ga_src", "ga_srv", "pi_src", "pi_srv", "pa_src", "pa_srv", "pa_valid"}

\* the positions of a task at the xSemaphoreTake of a cache function that
\* is entered in a step of its own
TakeLabels == {"wo_take", "ga_take", "pi_take", "pa_take"}

\* C29: a task holds the cache mutex only between the take and the give of
\* a cache function, so that it has given the mutex back when the function
\* returns; and a task that stands at the take of a cache function of an
\* existing mutex can go on, with the mutex or by its timeout, whatever
\* the other tasks do: no task is blocked on the cache.
C29_MutexReleasedAndWaitBounded ==
    /\ \A t \in Tasks : mutex = t => pc[t] \in CriticalLabels
    /\ \A t \in Tasks :
          (pc[t] \in TakeLabels /\ mutex # NullHandle)
             => (mutex = NoTask \/ TakeTimesOut(t))

\* a server task stands at the take of the outputs update while the
\* polling task holds the mutex inside the inputs update
C29_Witness ==
    /\ \E w \in Workers : pc[w] = "wo_take"
    /\ mutex = Poller
    /\ pc[Poller] = "pi_srv"

\* C30: no step clears the validity flag of an ADC channel, and a call of
\* io_cache_get_adc_channel that returns true finds the flag set and
\* delivers the value and the two timestamps that the last completed update
\* of that channel stored.
C30_AdcReadOfCompletedUpdate ==
    [][/\ \A c \in Channels : adc_cache[c].valid => adc_cache'[c].valid
       /\ (reply'.op = "GetAdc" /\ reply'.status = "TRUE")
             => /\ adc_cache'[reply'.arg].valid
                /\ [val |-> reply'.value, src |-> reply'.srcms,
                    srv |-> reply'.srvms] = committed'.cache[reply'.arg]]_vars

\* io_cache_get_adc_channel returns true with the values of the first pass
\* while the polling task is in the second pass and has stored another
\* channel again
C30_Witness ==
    /\ reply.op = "GetAdc"
    /\ reply.status = "TRUE"
    /\ reply.srcms = get_current_time_ms(FirstAdcTick)
    /\ \E c \in Channels :
          adc_cache[c].timestamp_ms # adc_cache[reply.arg].timestamp_ms

DiscreteReads == {"ReadInputs", "ReadOutputs"}

\* C13: a read of discrete_inputs or discrete_outputs that finds the mutex
\* held by another task returns the value 0 with source and server
\* timestamp 0 and no source timestamp in the reply, and changes nothing in
\* the cache; a read that took the mutex returns the stored value and the
\* stored timestamps.
C13_TimedOutRead ==
    [][\A w \in Workers :
         /\ (pc[w] = "idle" /\ mutex # NoTask /\ reply'.task = w
                /\ reply'.op \in DiscreteReads)
               => /\ reply'.status = "GOOD" /\ reply'.value = 0
                  /\ reply'.srcms = Zero32 /\ reply'.srvms = Zero32
                  /\ ~reply'.sourceSet
                  /\ UNCHANGED <<io_cache, adc_cache, mutex>>
         /\ (pc[w] = "ri_srv" /\ reply'.task = w)
               => <<reply'.value, reply'.srcms, reply'.srvms>>
                    = <<io_cache.discrete_inputs_cache,
                        io_cache.inputs_timestamp_ms,
                        io_cache.inputs_server_timestamp_ms>>
         /\ (pc[w] = "ro_srv" /\ reply'.task = w)
               => <<reply'.value, reply'.srcms, reply'.srvms>>
                    = <<io_cache.discrete_outputs_cache,
                        io_cache.outputs_timestamp_ms,
                        io_cache.outputs_server_timestamp_ms>>]_vars

\* a read of discrete_outputs has timed out while the cache holds a written
\* word and the polling task holds the mutex
C13_Witness ==
    /\ reply.op = "ReadOutputs" /\ ~reply.seen /\ reply.value = 0
    /\ io_cache.discrete_outputs_cache # 0
    /\ mutex = Poller

\* this step is a step of a read callback served by task w
ReadStep(w) ==
    \/ /\ pc'[w] # pc[w]
       /\ (loc[w].op \in ReadOps \/ loc'[w].op \in ReadOps)
    \/ /\ reply'.task = w
       /\ reply'.op \in ReadOps

\* the read callbacks that use no cache function
LockFreeReads == {"ReadCounter", "ReadLoopIn", "ReadLoopOut", "ReadAdc"}

\* C31: a server task inside a read callback is never inside a DAL function
\* and never waits at an xSemaphoreTake; no step of a read callback changes
\* the DAL state or the expander latches; a read of discrete_inputs or
\* discrete_outputs takes the mutex at most once, in the step in which it
\* is issued (its wait of pdMS_TO_TICKS(5) ticks is no wait); and the
\* callbacks of diagnostic_counter, the loopback pair and the ADC nodes
\* never hold the mutex.
C31_ReadsNeedNoHardware ==
    [][\A w \in Workers :
          /\ loc[w].op \in ReadOps => pc[w] \notin (DalLabels \cup TakeLabels)
          /\ ReadStep(w) => UNCHANGED dalVars
          /\ (mutex' = w /\ mutex # w /\ loc'[w].op \in ReadOps)
                => (pc[w] = "idle" /\ loc'[w].op \in DiscreteReads)
          /\ loc[w].op \in LockFreeReads => mutex # w]_vars

\* a read of discrete_inputs that took the mutex returns while the polling
\* task is reading the input expanders
C31_Witness ==
    /\ reply.op = "ReadInputs"
    /\ reply.seen
    /\ pc[Poller] = "pi_read"

\* at least ms milliseconds lie between tick count last and tick count now
ElapsedAtLeast(now, last, ms) ==
    Geq32(Sub32(now, last),
          U32((ms + portTICK_PERIOD_MS - 1) \div portTICK_PERIOD_MS))

\* the polling task begins an iteration: it samples xNow at its loop top
IterationBegins ==
    /\ pc[Poller] = "p_top"
    /\ xNow' = tick
    /\ pc'[Poller] \in {"pi_dal", "pa_ts"} \/ xNow' # xNow

\* the polling task ends the input poll of an iteration
InputPollEnds ==
    /\ pc[Poller] \in {"pi_take", "pi_srv"}
    /\ pc'[Poller] \in {"pa_ts", "p_top"}

StartupInit == Init /\ scenario = "startup"

\* a step of the polling task in which no xSemaphoreTake of an update times
\* out: the mutex is never held for the whole wait of an update
PollerProceeds ==
    /\ io_polling_task
    /\ ~DropsUpdate(Poller, "pi_take", "pi_src")
    /\ ~DropsUpdate(Poller, "pa_take", "pa_src")

\* the server task that holds the mutex goes on to its xSemaphoreGive
LockHolderProceeds ==
    \E w \in Workers : mutex = w /\ readDiscreteInputs(w)

\* io_polling_task_start creates the polling task with priority 8 on core
\* 1 and app_main then sleeps for 100 ms: the task samples the tick count
\* for xLastInputsTime and xLastAdcTime before the next tick
StartupTick ==
    /\ pc[Poller] \notin {"p_start", "p_start2"}
    /\ TickInterrupt

StartupNext ==
    \/ \E w \in Workers : readDiscreteInputs(w)
    \/ PollerProceeds
    \/ StartupTick

\* the tick interrupt keeps firing, the holder of the mutex gives it back,
\* and the polling task, blocked in xSemaphoreTake, gets the mutex once it
\* is given
StartupSpec ==
    /\ StartupInit
    /\ [][StartupNext]_vars
    /\ WF_vars(StartupTick)
    /\ WF_vars(LockHolderProceeds)
    /\ SF_vars(PollerProceeds)

\* C33: when discrete_io_init succeeds and no update of the cache times
\* out, then within the first StartupTicks ticks after start-up (less than
\* 100 ms) the inputs entry comes to carry a source timestamp that is not
\* zero, together with the word 0x0000 of the idle inputs.
C33_ColdStartInputs ==
    <>(/\ io_cache.inputs_timestamp_ms # Zero32
       /\ Less32(io_cache.inputs_timestamp_ms, U32(100))
       /\ io_cache.discrete_inputs_cache = 0
       /\ dio_initialized)

\* a client read at cold start returns 0x0000 with the source timestamp of
\* the first input poll
C33_Witness ==
    /\ scenario = "startup"
    /\ reply.op = "ReadInputs" /\ reply.seen
    /\ reply.value = 0
    /\ reply.sourceSet /\ reply.srcms = get_current_time_ms(U32(2))

\* C35: a server task is created only while no server task exists, so at
\* most one opcua_task is alive at any time, however the IP-obtained
\* events, the network-state callback and the fallback task interleave.
C35_OneServerTask ==
    [][\A w \in Workers :
          (opcua[w] = "absent" /\ opcua'[w] # "absent")
             => ServerTasks = {}]_vars

\* C36: once the network is back after a loss that stopped the server
\* loop and the handler of the reconnect has returned, a server task is
\* starting or running.
C36_ServerBackAfterReconnect ==
    (network = "back" /\ handler.event = "idle")
       => \E w \in Workers : opcua[w] \in {"startup", "loop"}

\* bit i of the unsigned number x
Bit(x, i) == (x \div 2^i) % 2

\* C37: the word read_discrete_inputs_slow returns has in its low byte the
\* bitwise complement of the byte read from input expander 1 and in its
\* high byte that of the byte read from input expander 2;
\* write_discrete_outputs_slow(W) latches the complement of the low byte of
\* W into output expander 1 and that of the high byte into output expander
\* 2 when the bus transactions succeed; the word 0x0000 goes with 0xFF on
\* each expander, in both directions.
C37_DalInvertsBothWays ==
    [][/\ (pc[Poller] = "pi_read" /\ pc'[Poller] = "pi_ts")
            => LET word == loc'[Poller].val
                   in == loc'[Poller].in
               IN /\ word \in 0 .. 65535
                  /\ \A i \in 0 .. 7 :
                        /\ Bit(word, i) # Bit(in[1], i)
                        /\ Bit(word, 8 + i) # Bit(in[2], i)
                  /\ (word = 0) <=> (in = <<255, 255>>)
       /\ \A w \in Workers :
            BusResults(scenario) = {TRUE} =>
               /\ (pc[w] = "wo_out1" /\ pc'[w] = "wo_out2")
                    => /\ expander_out'.out1 \in 0 .. 255
                       /\ \A i \in 0 .. 7 :
                             Bit(expander_out'.out1, i) # Bit(loc[w].val, i)
                       /\ expander_out'.out2 = expander_out.out2
                       /\ (loc[w].val = 0) => (expander_out'.out1 = 255)
               /\ (pc[w] = "wo_out2" /\ pc'[w] = "wo_ts")
                    => /\ expander_out'.out2 \in 0 .. 255
                       /\ \A i \in 0 .. 7 :
                             Bit(expander_out'.out2, i)
                                # Bit(loc[w].val, 8 + i)
                       /\ expander_out'.out1 = expander_out.out1
                       /\ (loc[w].val = 0) => (expander_out'.out2 = 255)]_vars

\* the input poll has read 0x01 from expander 1 and 0x80 from expander 2
\* and holds the word 0x7FFE
C37_Witness ==
    /\ pc[Poller] = "pi_ts"
    /\ loc[Poller].in = <<1, 128>>
    /\ loc[Poller].val = 32766

\* C38: WIFI_FAIL_BIT is set only after max_retry reconnect attempts made
\* since the running call of wifi_connect began or since the last IP was
\* obtained, and those attempts never exceed max_retry, in the first call
\* and in every later one.
C38_FailureOnlyAfterMaxRetry ==
    [][/\ (s_wifi_event_group' # NoGroup
            /\ "WIFI_FAIL_BIT" \in s_wifi_event_group'
            /\ "WIFI_FAIL_BIT" \notin s_wifi_event_group)
           => wifi_call.attempts = max_retry
       /\ wifi_call'.attempts <= max_retry]_vars

\* C39: with the authentication enabled, the access level of a session
\* includes WRITE only if the session was activated with a user name and a
\* password that are, character for character, those of an enabled user of
\* the configuration whose rights include WRITE or ADMIN; an anonymous
\* session never gets it.
C39_WriteAccessNeedsExactCredentials ==
    (g_config.opcua_auth_enable /\ "WRITE" \in session.level)
       => /\ session.token.kind = "username"
          /\ \E i \in 1 .. Len(g_config.opcua_users) :
                LET user == g_config.opcua_users[i]
                IN /\ user.enabled
                   /\ user.username = session.token.userName
                   /\ user.password = session.token.password
                   /\ {"WRITE", "ADMIN"} \cap user.rights # {}

\* C34: the millisecond clock get_current_time_ms never decreases from one
\* reading to a later one, whatever the tick count, also when the tick
\* count or the 32-bit product of tick count and tick period overflows.
C34_ClockNeverDecreases ==
    [][Geq32(get_current_time_ms(tick'), get_current_time_ms(tick))]_vars

TypeOK ==
    /\ tick \in (0 .. (WordModulus - 1)) \X (0 .. (WordModulus - 1))
    /\ mutex \in Tasks \cup {NoTask, NullHandle}
    /\ running \in BOOLEAN
    /\ g_config \in ConfigsOf("access")
    /\ allowAnonymous \in BOOLEAN
    /\ session.token \in Tokens \cup {NoToken}
    /\ session.activations \in 0 .. MaxActivations
    /\ session.context \in {NullContext} \cup SUBSET OPCUA_ROLE_ADMIN
    /\ s_retry_num \in 0 .. max_retry
    /\ s_wifi_initialized \in BOOLEAN
    /\ s_wifi_event_group \in
          {NoGroup} \cup SUBSET {"WIFI_CONNECTED_BIT", "WIFI_FAIL_BIT"}
    /\ instance_any_id \in BOOLEAN
    /\ sta \in {"stopped", "started", "connecting", "connected"}
    /\ wifi_call \in [pc : {"idle", "wait"}, calls : 0 .. MaxWifiCalls,
                       attempts : 0 .. max_retry,
                       bits : SUBSET {"WIFI_CONNECTED_BIT", "WIFI_FAIL_BIT"},
                       result : {"NONE", "ESP_OK", "ESP_FAIL",
                                 "ESP_ERR_INVALID_STATE"}]
    /\ isServerCreated \in BOOLEAN
    /\ fallback_triggered \in BOOLEAN
    /\ network_initialized \in BOOLEAN
    /\ network \in {"down", "up", "lost", "back"}
    /\ opcua \in [Workers -> {"absent", "startup", "loop", "shutdown"}]
    /\ handler \in [{"event", "fallback"} ->
                      {"idle", "wait", "check", "netif", "create", "done"}]
    /\ dio_initialized \in BOOLEAN
    /\ diagnostic_counter \in 0 .. (WordModulus - 1)
    /\ loopback_input \in 0 .. (WordModulus - 1)
    /\ loopback_output \in 0 .. (WordModulus - 1)
    /\ io_cache.discrete_inputs_cache \in 0 .. (WordModulus - 1)
    /\ io_cache.discrete_outputs_cache \in 0 .. (WordModulus - 1)
    /\ \A c \in Callers :
          /\ counterSeen[c] \in {NoWord} \cup (0 .. (WordModulus - 1))
          /\ counterSeenAlone[c] \in {NoWord, counterSeen[c]}
    /\ \A e \in DOMAIN dropped : dropped[e] \in {"none", "dropped", "due"}
    /\ initFailed \in BOOLEAN

=============================================================================
